---- MODULE Spec2Model ----
(***************************************************************************)
(* A model of blsforme: the VFAT file engine (file_utils.rs), the          *)
(* systemd-boot installer (bootloader/systemd_boot/mod.rs), the Manager    *)
(* (manager.rs), the entry model (entry.rs) and the block device tree of   *)
(* the topology crate (disk/device.rs).                                    *)
(*                                                                         *)
(* Strings are sequences of atoms: an atom is a word without blanks or     *)
(* dots, the blank " " or the dot ".".  File contents are sequences of     *)
(* bytes.  Each component has its own variables and its own specification; *)
(* a specification leaves the variables of the other components alone.     *)
(***************************************************************************)
EXTENDS Integers, Sequences, FiniteSets, TLC

VARIABLES
    files,      \* the directory copy_atomic_vfat writes to: name -> File
    cp,         \* the running copy_atomic_vfat call
    trace,      \* the filesystem calls copy_atomic_vfat has made, in order
    cf,         \* the changed_files call: its input, its faults, its result
    topo,       \* the topology probe: its input, the BlockDevice tree, cmd_line()
    kern,       \* the kernel discovery: the paths given, the kernels returned
    efi,        \* the read of a Boot Loader Interface variable: the file, the result
    env,        \* the system a Manager runs on: cmdline.d directories, boot devices
    mgr,        \* the Manager: cmdline, system_excluded_snippets, mounts
    entries,    \* the entries handed to the Manager
    vol,        \* the files and directories below the boot mountpoints
    sy          \* the running Manager::sync call

fileVars == <<files, cp, trace, cf>>
topoVars == <<topo, kern, efi>>
bootVars == <<env, mgr, entries, vol, sy>>
vars == <<files, cp, trace, cf, topo, kern, efi, env, mgr, entries, vol, sy>>

(***************************************************************************)
(* Bounds                                                                  *)
(***************************************************************************)
\* longest file content, in bytes
MaxLen == 2

(***************************************************************************)
(* Helpers on sequences                                                    *)
(***************************************************************************)
Bytes == {0, 1}

RECURSIVE SeqsUpTo(_, _)
SeqsUpTo(S, n) ==
    IF n = 0 THEN {<<>>}
    ELSE LET shorter == SeqsUpTo(S, n - 1)
         IN  shorter \cup {Append(s, x) : s \in {t \in shorter : Len(t) = n - 1}, x \in S}

Contents == SeqsUpTo(Bytes, MaxLen)

\* what a path that names no file maps to: no content is this sequence
NoFile == <<-1>>

Prefix(s, n) == SubSeq(s, 1, n)

(***************************************************************************)
(* std::path::Path::with_extension, on the final component of a path.      *)
(* file_stem is the name up to its last dot, or the whole name when it has *)
(* no dot or only a leading one; the new extension follows a fresh dot.    *)
(***************************************************************************)
Dot == "."

LastDot(name) ==
    LET dots == {i \in 1..Len(name) : name[i] = Dot}
    IN  IF dots = {} THEN 0 ELSE CHOOSE i \in dots : \A j \in dots : j <= i

file_stem(name) ==
    IF LastDot(name) <= 1 THEN name ELSE Prefix(name, LastDot(name) - 1)

with_extension_keep(name, ext) == name

with_extension(name, ext) ==
    IF ext = <<>> THEN file_stem(name) ELSE file_stem(name) \o <<Dot>> \o ext

\* the literal ".TmpWrite" handed to with_extension
TmpWrite == <<Dot, "TmpWrite">>

dest_temp(dest) == with_extension(dest, TmpWrite)

(***************************************************************************)
(* copy_atomic_vfat(source, dest)                                          *)
(***************************************************************************)
\* destination names: no extension, one extension, several dots, hidden
DestNames ==
    { <<"vmlinuz">>,
      <<"BOOTX64", Dot, "EFI">>,
      <<"initrd", Dot, "6", Dot, "8">>,
      <<Dot, "hidden">> }

\* the names of the directory a copy to dest can touch
NamesOf(dest) == {dest, dest_temp(dest), dest \o TmpWrite}

Ev(op, path) == [op |-> op, path |-> path]

CopyInit ==
    \E dest \in DestNames, src \in Contents \cup {NoFile},
       old \in Contents \cup {NoFile}, stale \in {NoFile, <<1>>}, dir \in BOOLEAN :
        \* a directory that holds a file exists
        /\ (old # NoFile \/ stale # NoFile) => dir
        /\ files = [n \in NamesOf(dest) |->
                        IF n = dest THEN old
                        ELSE IF n = dest_temp(dest) THEN stale
                        ELSE NoFile]
        /\ cp = [pc |-> "start", status |-> "running", source |-> src, dest |-> dest,
                 old |-> old, dest_temp |-> <<>>, dest_exists |-> FALSE,
                 dir_leading |-> dir, off |-> 0]
        /\ trace = <<>>

Running == cp.status = "running"

\* lines 101-109: the staging path, dest.exists(), create_dir_all(parent)
copy_begin ==
    /\ Running /\ cp.pc = "start"
    /\ cp' = [cp EXCEPT !.pc = "open_out",
                        !.dest_temp = dest_temp(cp.dest),
                        !.dest_exists = (files[cp.dest] # NoFile),
                        !.dir_leading = TRUE]
    /\ trace' = IF cp.dir_leading THEN trace
                ELSE Append(trace, Ev("create_dir_all", <<>>))
    /\ UNCHANGED <<files, cf, topoVars, bootVars>>

\* lines 112-116: File::options().truncate(true).write(true).create(true).open(dest_temp)
copy_open_output ==
    /\ Running /\ cp.pc = "open_out"
    /\ files' = [files EXCEPT ![cp.dest_temp] = <<>>]
    /\ trace' = Append(trace, Ev("open_trunc", cp.dest_temp))
    /\ cp' = [cp EXCEPT !.pc = "open_in"]
    /\ UNCHANGED <<cf, topoVars, bootVars>>

\* line 117: File::open(source)?
copy_open_input ==
    /\ Running /\ cp.pc = "open_in"
    /\ cp' = IF cp.source = NoFile
             THEN [cp EXCEPT !.status = "failed"]
             ELSE [cp EXCEPT !.pc = "copy"]
    /\ UNCHANGED <<files, trace, cf, topoVars, bootVars>>

\* line 122: io::copy, one byte of the source at a time into the open output
copy_write ==
    /\ Running /\ cp.pc = "copy" /\ cp.off < Len(cp.source)
    /\ files' = [files EXCEPT ![cp.dest_temp] = Append(@, cp.source[cp.off + 1])]
    /\ trace' = Append(trace, Ev("write", cp.dest_temp))
    /\ cp' = [cp EXCEPT !.off = @ + 1]
    /\ UNCHANGED <<cf, topoVars, bootVars>>

\* line 123: the first syncfs, once io::copy has returned
copy_sync_staged ==
    /\ Running /\ cp.pc = "copy" /\ cp.off = Len(cp.source)
    /\ trace' = Append(trace, Ev("syncfs", cp.dest_temp))
    /\ cp' = [cp EXCEPT !.pc = IF cp.dest_exists THEN "unlink" ELSE "rename"]
    /\ UNCHANGED <<files, cf, topoVars, bootVars>>

\* lines 126-129, mutated: the unlink without the syncfs that follows it
copy_unlink_nosync ==
    /\ Running /\ cp.pc = "unlink"
    /\ files' = [files EXCEPT ![cp.dest] = NoFile]
    /\ trace' = Append(trace, Ev("remove_file", cp.dest))
    /\ cp' = [cp EXCEPT !.pc = "rename"]
    /\ UNCHANGED <<cf, topoVars, bootVars>>

\* lines 126-129: if dest_exists { remove_file(dest)?; syncfs?; }
copy_unlink ==
    /\ Running /\ cp.pc = "unlink"
    /\ files' = [files EXCEPT ![cp.dest] = NoFile]
    /\ trace' = trace \o <<Ev("remove_file", cp.dest), Ev("syncfs", cp.dest_temp)>>
    /\ cp' = [cp EXCEPT !.pc = "rename"]
    /\ UNCHANGED <<cf, topoVars, bootVars>>

\* line 132, mutated: the staged bytes copied to dest, the staging file left behind
copy_rename_keep ==
    /\ Running /\ cp.pc = "rename"
    /\ files' = [files EXCEPT ![cp.dest] = files[cp.dest_temp]]
    /\ trace' = Append(trace, Ev("rename", cp.dest))
    /\ cp' = [cp EXCEPT !.pc = "sync_final"]
    /\ UNCHANGED <<cf, topoVars, bootVars>>

\* line 132: fs::rename(dest_temp, dest)
copy_rename ==
    /\ Running /\ cp.pc = "rename"
    /\ files' = [n \in DOMAIN files |->
                    IF n = cp.dest THEN files[cp.dest_temp]
                    ELSE IF n = cp.dest_temp THEN NoFile
                    ELSE files[n]]
    /\ trace' = Append(trace, Ev("rename", cp.dest))
    /\ cp' = [cp EXCEPT !.pc = "sync_final"]
    /\ UNCHANGED <<cf, topoVars, bootVars>>

\* lines 133-137: the last syncfs, then Ok(())
copy_sync_final ==
    /\ Running /\ cp.pc = "sync_final"
    /\ trace' = Append(trace, Ev("syncfs", cp.dest_temp))
    /\ cp' = [cp EXCEPT !.pc = "returned", !.status = "ok"]
    /\ UNCHANGED <<files, cf, topoVars, bootVars>>

\* the process is interrupted between two filesystem calls
copy_kill ==
    /\ Running
    /\ cp' = [cp EXCEPT !.status = "killed"]
    /\ UNCHANGED <<files, trace, cf, topoVars, bootVars>>

\* a filesystem call returns an error and `?` returns it to the caller
copy_error ==
    /\ Running /\ cp.pc \in {"open_out", "copy", "unlink", "rename", "sync_final"}
    /\ cp' = [cp EXCEPT !.status = "failed"]
    /\ UNCHANGED <<files, trace, cf, topoVars, bootVars>>

copy_atomic_vfat ==
    \/ copy_begin
    \/ copy_open_output
    \/ copy_open_input
    \/ copy_write
    \/ copy_sync_staged
    \/ copy_unlink
    \/ copy_rename
    \/ copy_sync_final
    \/ copy_kill
    \/ copy_error

CfIdle == [pairs |-> <<>>, faults |-> <<>>, out |-> <<>>, pc |-> "idle"]

TopoIdle == [pc |-> "idle"]

ProbeIdle == kern = [pc |-> "idle"] /\ efi = [pc |-> "idle"]

BootIdle ==
    /\ env = [pc |-> "idle"]
    /\ mgr = [pc |-> "idle"]
    /\ entries = <<>>
    /\ vol = <<>>
    /\ sy = [pc |-> "idle"]

InitCopy == CopyInit /\ cf = CfIdle /\ topo = TopoIdle /\ ProbeIdle /\ BootIdle

SpecCopy == InitCopy /\ [][copy_atomic_vfat]_vars

(***************************************************************************)
(* Claims about copy_atomic_vfat                                           *)
(***************************************************************************)
\* the positions of the call at which fs::rename has not been made yet
PreRename == {"start", "open_out", "open_in", "copy", "unlink", "rename"}

KilledBeforeRename == cp.status = "killed" /\ cp.pc \in PreRename

\* C1, as stated: a call interrupted before the final rename leaves dest with
\* exactly its previous bytes when it existed before the call, and absent when
\* it did not.
C1_DestUntouched == KilledBeforeRename => files[cp.dest] = cp.old

\* C1, amended: a call interrupted before the final rename leaves dest either
\* with exactly its previous bytes or absent (absent also when dest existed and
\* the interruption came after the unlink); dest never holds partial or mixed
\* content, and a dest that did not exist stays absent.
C1_DestOldOrAbsent ==
    KilledBeforeRename => (files[cp.dest] = cp.old \/ files[cp.dest] = NoFile)

\* C1 witness: dest existed with content, the call was interrupted after the
\* unlink and before the rename, with the staging file fully written.
C1_Witness ==
    /\ KilledBeforeRename /\ cp.pc = "rename"
    /\ cp.old # NoFile /\ Len(cp.old) > 0
    /\ files[cp.dest] = NoFile
    /\ files[cp.dest_temp] = cp.source

\* the calls a successful copy makes after the parent directory is there
ExpectedCalls(source, existed, dest, staging) ==
    <<Ev("open_trunc", staging)>>
    \o [i \in 1..Len(source) |-> Ev("write", staging)]
    \o <<Ev("syncfs", staging)>>
    \o (IF existed THEN <<Ev("remove_file", dest), Ev("syncfs", staging)>> ELSE <<>>)
    \o <<Ev("rename", dest), Ev("syncfs", staging)>>

NotMkdir(e) == e.op # "create_dir_all"

\* C2: a successful call writes the whole source to the staging file, then
\* syncfs; then, only if dest existed when the call started, unlinks dest and
\* syncfs again; then renames the staging file to dest; then a final syncfs.
\* dest itself is never opened for writing nor written.
C2_StepOrder ==
    cp.status = "ok" =>
        /\ cp.dest_temp # cp.dest
        /\ SelectSeq(trace, NotMkdir)
             = ExpectedCalls(cp.source, cp.old # NoFile, cp.dest, cp.dest_temp)
        /\ \A i \in 1..Len(trace) :
             trace[i].op \in {"open_trunc", "write"} => trace[i].path # cp.dest

\* C2 witness: a successful copy of a non-empty source over an existing dest.
C2_Witness ==
    /\ cp.status = "ok" /\ cp.old # NoFile /\ Len(cp.source) > 0
    /\ Len(trace) >= 6

\* C3: after a successful call dest holds exactly the bytes of source and no
\* staging file of the copy remains (neither the staging path the call used nor
\* dest + ".TmpWrite"), whether or not dest existed and whatever its name.
C3_CopiedAndClean ==
    cp.status = "ok" =>
        /\ files[cp.dest] = cp.source
        /\ cp.dest_temp # cp.dest
        /\ files[cp.dest_temp] = NoFile
        /\ files[cp.dest \o TmpWrite] = NoFile

\* C3 witness: a successful copy over an existing, different dest whose name
\* has an extension, with a stale staging file left by an earlier run.
C3_Witness ==
    /\ cp.status = "ok"
    /\ cp.dest = <<"BOOTX64", Dot, "EFI">>
    /\ cp.old # NoFile /\ cp.old # cp.source
    /\ Len(cp.source) > 0
    /\ files[cp.dest] = cp.source

(***************************************************************************)
(* files_identical and changed_files                                       *)
(*                                                                         *)
(* A file is Missing or a record of its type and bytes.  The hasher absorbs *)
(* bytes; its digest is modelled without collisions, as the sequence of    *)
(* all bytes absorbed since the last reset.  A read error can interrupt    *)
(* update_mmap_rayon after any number of bytes were absorbed.              *)
(***************************************************************************)
\* most pairs handed to one changed_files call
MaxPairs == 2

Reg(data) == [type |-> "reg", data |-> data]
\* what File::open finds at a path that names nothing
Missing == [type |-> "none", data |-> <<>>]

CfFiles == {Reg(d) : d \in Contents} \cup {[type |-> "dir", data |-> <<>>]}

Exists(f) == f.type # "none"

\* no read error during the call
NoFault == [pair |-> 0, file |-> "none", after |-> 0]

\* the read errors one call can meet: while hashing `file` of pair `pair`,
\* after `after` bytes went into the hasher
Faults(pairs) ==
    {NoFault} \cup
    {[pair |-> i, file |-> w, after |-> k] :
        i \in 1..Len(pairs), w \in {"a", "b"}, k \in 0..MaxLen}

\* hasher.update_mmap_rayon(path): the hasher after it, and whether it failed.
\* Reading a directory fails before any byte is absorbed.
update_mmap_rayon(hasher, f, fault_here, after) ==
    IF f.type = "dir" THEN [hasher |-> hasher, ok |-> FALSE]
    ELSE IF fault_here /\ after <= Len(f.data)
         THEN [hasher |-> hasher \o Prefix(f.data, after), ok |-> FALSE]
         ELSE [hasher |-> hasher \o f.data, ok |-> TRUE]

\* hasher.reset()
reset == <<>>

\* files_identical(hasher, a, b): Ok(true), Ok(false) or Err, and the hasher
\* it leaves behind (lines 41-59)
files_identical(hasher, a, b, fault) ==
    IF ~Exists(a) \/ ~Exists(b) THEN [res |-> "err", hasher |-> hasher]
    ELSE IF Len(a.data) # Len(b.data) \/ a.type # b.type
         THEN [res |-> "differ", hasher |-> hasher]
    ELSE LET ua == update_mmap_rayon(hasher, a, fault.file = "a", fault.after)
         IN  IF ~ua.ok THEN [res |-> "err", hasher |-> ua.hasher]
             ELSE LET result_a == ua.hasher
                      ub == update_mmap_rayon(reset, b, fault.file = "b", fault.after)
                  IN  IF ~ub.ok THEN [res |-> "err", hasher |-> ub.hasher]
                      ELSE [res |-> IF result_a = ub.hasher THEN "same" ELSE "differ",
                            hasher |-> reset]

\* the filter_map of changed_files from pair i on, with one hasher for all pairs:
\* the indices of the pairs returned (lines 69-85)
RECURSIVE changed_from(_, _, _, _)
changed_from(pairs, i, hasher, fault) ==
    IF i > Len(pairs) THEN <<>>
    ELSE LET r == files_identical(hasher, pairs[i].source, pairs[i].dest,
                                  IF fault.pair = i THEN fault ELSE NoFault)
             rest == changed_from(pairs, i + 1, r.hasher, fault)
         IN  IF r.res = "same" THEN rest ELSE <<i>> \o rest

\* changed_files, mutated: a pair whose dest cannot be opened is not returned
changed_files_existing(pairs, fault) ==
    SelectSeq(changed_from(pairs, 1, reset, fault), LAMBDA i : Exists(pairs[i].dest))

changed_files(pairs, fault) == changed_from(pairs, 1, reset, fault)

Pairs == [source : CfFiles \cup {Missing}, dest : CfFiles \cup {Missing}]

RECURSIVE PairSeqs(_)
PairSeqs(n) ==
    IF n = 0 THEN {<<>>}
    ELSE PairSeqs(n - 1) \cup
         {Append(s, p) : s \in {t \in PairSeqs(n - 1) : Len(t) = n - 1}, p \in Pairs}

CopyIdle ==
    /\ files = <<>>
    /\ cp = [pc |-> "idle", status |-> "idle"]
    /\ trace = <<>>

InitChanged ==
    /\ CopyIdle
    /\ topo = TopoIdle /\ ProbeIdle
    /\ BootIdle
    /\ \E pairs \in PairSeqs(MaxPairs) : \E fault \in Faults(pairs) :
         cf = [pairs |-> pairs, faults |-> fault, out |-> <<>>, pc |-> "called"]

\* one call of changed_files on the drawn pairs
changed_files_call ==
    /\ cf.pc = "called"
    /\ cf' = [cf EXCEPT !.out = changed_files(cf.pairs, cf.faults), !.pc = "returned"]
    /\ UNCHANGED <<files, cp, trace, topoVars, bootVars>>

SpecChanged == InitChanged /\ [][changed_files_call]_vars

Returned(i) == \E j \in 1..Len(cf.out) : cf.out[j] = i

\* source and dest are regular files with the same bytes
ByteIdentical(p) ==
    /\ Exists(p.source) /\ Exists(p.dest)
    /\ p.source.type = "reg" /\ p.dest.type = "reg"
    /\ p.source.data = p.dest.data

\* C5, as stated: a pair is returned if and only if dest is missing or the two
\* files differ in size, type or content.
C5_ReturnedIffDiffer ==
    cf.pc = "returned" =>
        \A i \in 1..Len(cf.pairs) :
            Returned(i) <=> (~Exists(cf.pairs[i].dest) \/ cf.pairs[i].source # cf.pairs[i].dest)

\* C5, its second half: a pair whose dest exists and is byte-identical to its
\* source, and whose own comparison met no read error, is never returned,
\* whatever the other pairs of the call are and whether or not the comparison
\* of an earlier pair failed.
C5_IdenticalNeverReturned ==
    cf.pc = "returned" =>
        \A i \in 1..Len(cf.pairs) :
            (ByteIdentical(cf.pairs[i]) /\ cf.faults.pair # i) => ~Returned(i)

(***************************************************************************)
(* Strings of the command line: sequences of atoms.  An atom is a record   *)
(* of a text and a number (the number tells apart the UUIDs, device paths  *)
(* and snippet texts of different origin); Blank is the blank.             *)
(***************************************************************************)
W(text) == [t |-> text, n |-> 0]
Atom(text, n) == [t |-> text, n |-> n]
Blank == W(" ")

\* slice::join(" ") on a sequence of strings
RECURSIVE join(_)
join(strs) ==
    IF Len(strs) = 0 THEN <<>>
    ELSE IF Len(strs) = 1 THEN strs[1]
    ELSE strs[1] \o <<Blank>> \o join(Tail(strs))

RECURSIVE trim_start(_)
trim_start(str) ==
    IF Len(str) > 0 /\ str[1] = Blank THEN trim_start(Tail(str)) ELSE str

RECURSIVE trim_end(_)
trim_end(str) ==
    IF Len(str) > 0 /\ str[Len(str)] = Blank
    THEN trim_end(SubSeq(str, 1, Len(str) - 1)) ELSE str

\* str::trim
trim(str) == trim_end(trim_start(str))

Some(v) == [some |-> TRUE, v |-> v]
None == [some |-> FALSE, v |-> W("")]

(***************************************************************************)
(* The block device tree (topology crate)                                  *)
(***************************************************************************)
\* most devices in the backing chain of the root device
MaxChain == 3

\* what get_device_superblock finds on a device; "none" when it fails
Kinds == {"none", "Ext4", "Btrfs", "F2FS", "XFS", "LUKS2"}

\* the mountpoint handed to get_rootfs_device
RootPath == W("/")

Flag(k) == [k |-> k, v |-> W(""), opt |-> FALSE]
Option(k, v) == [k |-> k, v |-> v, opt |-> TRUE]
Mount(mountpoint, opts) == [mountpoint |-> mountpoint, opts |-> opts]

\* the mount tables probed: the root mounted without and with subvol=, an
\* option given twice, the mountpoint listed twice, and no entry for the root
MountTables ==
    { <<>>,
      <<Mount(RootPath, <<Flag("rw"), Flag("noatime")>>)>>,
      <<Mount(W("/home"), <<Option("subvol", W("@home"))>>),
        Mount(RootPath, <<Flag("rw"), Option("subvol", W("@"))>>)>>,
      <<Mount(RootPath, <<Option("subvol", W("@old")), Option("subvol", W("@"))>>)>>,
      <<Mount(RootPath, <<Flag("rw")>>),
        Mount(RootPath, <<Option("subvol", W("@"))>>)>> }

\* BlockDevice::new(probe, path, mount, aux): device number d stands for its path
BlockDevice_new(kinds, d, mount, aux) ==
    [ kind |-> kinds[d],
      mountpoint |-> mount,
      path |-> Atom("/dev/", d),
      children |-> <<>>,
      uuid |-> IF kinds[d] = "none" THEN None ELSE Some(Atom("uuid", d)),
      guid |-> None,
      aux |-> aux ]

\* the HashMap collected from (key, value) pairs: the last pair of a key wins;
\* `hits` are the positions of the pairs of the key, 0 when there is none
LastOf(hits) ==
    IF hits = {} THEN 0 ELSE CHOOSE i \in hits : \A j \in hits : j <= i

\* mount_options.get("subvol") for the device's mountpoint (lines 81-100)
subvol_of(dev, mounts) ==
    LET mi == LastOf({i \in 1..Len(mounts) :
                        dev.mountpoint.some /\ mounts[i].mountpoint = dev.mountpoint.v})
    IN  IF mi = 0 THEN None
        ELSE LET opts == mounts[mi].opts
                 oi == LastOf({i \in 1..Len(opts) : opts[i].opt /\ opts[i].k = "subvol"})
             IN  IF oi = 0 THEN None ELSE Some(opts[oi].v)

\* the local fragment, mutated: the filesystem UUID is preferred to the GPT GUID
local_fragment_uuid_first(dev, mounts) ==
    IF dev.kind = "Btrfs"
    THEN IF subvol_of(dev, mounts).some
         THEN <<W("root=UUID="), dev.uuid.v, Blank, W("rootfsflags=subvol="),
                subvol_of(dev, mounts).v>>
         ELSE <<W("root=UUID="), dev.uuid.v>>
    ELSE IF dev.kind = "LUKS2" THEN <<W("rd.luks.uuid="), dev.uuid.v>>
    ELSE IF dev.kind # "none"
         THEN IF dev.uuid.some THEN <<W("root=UUID="), dev.uuid.v>>
              ELSE IF dev.guid.some THEN <<W("root=PARTUUID="), dev.guid.v>>
              ELSE <<>>
    ELSE IF ~dev.aux THEN <<W("root="), dev.path>>
    ELSE <<>>

\* `local` of cmd_line (lines 102-130)
local_fragment(dev, mounts) ==
    IF dev.kind = "Btrfs"
    THEN IF subvol_of(dev, mounts).some
         THEN <<W("root=UUID="), dev.uuid.v, Blank, W("rootfsflags=subvol="),
                subvol_of(dev, mounts).v>>
         ELSE <<W("root=UUID="), dev.uuid.v>>
    ELSE IF dev.kind = "LUKS2" THEN <<W("rd.luks.uuid="), dev.uuid.v>>
    ELSE IF dev.kind # "none"
         THEN IF dev.guid.some THEN <<W("root=PARTUUID="), dev.guid.v>>
              ELSE IF dev.uuid.some THEN <<W("root=UUID="), dev.uuid.v>>
              ELSE <<>>
    ELSE IF ~dev.aux THEN <<W("root="), dev.path>>
    ELSE <<>>

\* BlockDevice::cmd_line (lines 79-133)
RECURSIVE cmd_line(_, _)
cmd_line(dev, mounts) ==
    LET children == join([i \in 1..Len(dev.children) |-> cmd_line(dev.children[i], mounts)])
    IN  trim(local_fragment(dev, mounts) \o <<Blank>> \o children)

\* Probe::get_rootfs_device(path): devices are numbered, 1 is the device mounted
\* at path and 2.. its backing chain in get_device_chain order (probe.rs 132-164)
get_rootfs_device(kinds, guid) ==
    LET custodials == [i \in 1..Len(kinds) |-> i]
        tip == custodials[Len(custodials)]
        rest == SubSeq(custodials, 1, Len(custodials) - 1)
        block == BlockDevice_new(kinds, tip, None, TRUE)
    IN  [block EXCEPT
            !.children = [i \in 1..Len(rest) |->
                            IF rest[i] = 1
                            THEN BlockDevice_new(kinds, rest[i], Some(RootPath), FALSE)
                            ELSE BlockDevice_new(kinds, rest[i], None, TRUE)],
            !.guid = guid]

RECURSIVE KindSeqs(_)
KindSeqs(n) ==
    IF n = 0 THEN {<<>>}
    ELSE KindSeqs(n - 1) \cup
         {Append(s, k) : s \in {t \in KindSeqs(n - 1) : Len(t) = n - 1}, k \in Kinds}

FileIdle == CopyIdle /\ cf = CfIdle

\* the probed system: the superblock kind of the root device and of each device
\* of its backing chain, the GPT GUID of the root partition, the mount table
InitTopo ==
    /\ FileIdle
    /\ BootIdle
    /\ ProbeIdle
    /\ \E kinds \in KindSeqs(MaxChain + 1) \ {<<>>},
          guid \in {None, Some(Atom("guid", 1))},
          mounts \in MountTables :
         topo = [pc |-> "probed", kinds |-> kinds, guid |-> guid, mounts |-> mounts,
                 root |-> BlockDevice_new(kinds, 1, None, TRUE), out |-> <<>>]

\* let root = probe.get_rootfs_device(path)
topo_get_rootfs_device ==
    /\ topo.pc = "probed"
    /\ topo' = [topo EXCEPT !.pc = "built",
                            !.root = get_rootfs_device(topo.kinds, topo.guid)]
    /\ UNCHANGED <<fileVars, bootVars, kern, efi>>

\* root.cmd_line()
topo_cmd_line ==
    /\ topo.pc = "built"
    /\ topo' = [topo EXCEPT !.pc = "done", !.out = cmd_line(topo.root, topo.mounts)]
    /\ UNCHANGED <<fileVars, bootVars, kern, efi>>

NextTopo == topo_get_rootfs_device \/ topo_cmd_line

SpecTopo == InitTopo /\ [][NextTopo]_vars

(***************************************************************************)
(* Claims about cmd_line                                                   *)
(***************************************************************************)
\* the fragment the claim gives for one node, read off the claim's cases;
\* subvol is the subvol= option of the node's mount, if any
ClaimedFragment(dev, subvol) ==
    CASE dev.kind = "Btrfs" /\ subvol.some ->
            <<W("root=UUID="), dev.uuid.v, Blank, W("rootfsflags=subvol="), subvol.v>>
      [] dev.kind = "Btrfs" /\ ~subvol.some -> <<W("root=UUID="), dev.uuid.v>>
      [] dev.kind = "LUKS2" -> <<W("rd.luks.uuid="), dev.uuid.v>>
      [] dev.kind \in {"Ext4", "F2FS", "XFS"} /\ dev.guid.some ->
            <<W("root=PARTUUID="), dev.guid.v>>
      [] dev.kind \in {"Ext4", "F2FS", "XFS"} /\ ~dev.guid.some /\ dev.uuid.some ->
            <<W("root=UUID="), dev.uuid.v>>
      [] dev.kind \in {"Ext4", "F2FS", "XFS"} /\ ~dev.guid.some /\ ~dev.uuid.some -> <<>>
      [] dev.kind = "none" /\ ~dev.aux -> <<W("root="), dev.path>>
      [] dev.kind = "none" /\ dev.aux -> <<>>

\* the subvol= value the mount table gives for a mountpoint: of the last entry
\* of the mountpoint, the last subvol= option
MountSubvol(dev, mounts) ==
    IF ~dev.mountpoint.some THEN None
    ELSE LET ms == {i \in 1..Len(mounts) : mounts[i].mountpoint = dev.mountpoint.v}
         IN  IF ms = {} THEN None
             ELSE LET m == mounts[CHOOSE i \in ms : \A j \in ms : j <= i]
                      os == {i \in 1..Len(m.opts) : m.opts[i].opt /\ m.opts[i].k = "subvol"}
                  IN  IF os = {} THEN None
                      ELSE Some(m.opts[CHOOSE i \in os : \A j \in os : j <= i].v)

\* the non-empty strings of a sequence of strings, in order
NonEmpty(strs) == SelectSeq(strs, LAMBDA x : x # <<>>)

\* C10: a node without children yields exactly the fragment of its kind; a
\* node with children yields its own fragment followed by the fragments of its
\* children in child order, blank-separated.
C10_Fragments ==
    topo.pc = "done" =>
        LET root == topo.root
            claimed(d) == ClaimedFragment(d, MountSubvol(d, topo.mounts))
            kids == [i \in 1..Len(root.children) |-> cmd_line(root.children[i], topo.mounts)]
        IN  /\ \A i \in 1..Len(root.children) : kids[i] = claimed(root.children[i])
            /\ topo.out = join(NonEmpty(<<claimed(root)>> \o kids))
                 \/ (\E i \in 1..Len(kids) : kids[i] = <<>>)
            /\ SelectSeq(topo.out, LAMBDA a : a # Blank)
                 = SelectSeq(join(<<claimed(root)>> \o kids), LAMBDA a : a # Blank)

\* C10 witness: an Ext4 top node with a GPT GUID over a Btrfs child mounted with
\* subvol= and an unknown auxiliary child.
C10_Witness ==
    /\ topo.pc = "done"
    /\ topo.root.kind = "Ext4" /\ topo.root.guid.some
    /\ Len(topo.root.children) = 2
    /\ topo.root.children[1].kind = "Btrfs"
    /\ MountSubvol(topo.root.children[1], topo.mounts).some
    /\ topo.root.children[2].kind = "none"
    /\ topo.out = <<W("root=PARTUUID="), Atom("guid", 1), Blank,
                    W("root=UUID="), Atom("uuid", 1), Blank,
                    W("rootfsflags=subvol="), W("@")>>

\* the string holds `part` as a run of consecutive tokens
HasInfix(str, part) ==
    \E i \in 0..(Len(str) - Len(part)) : SubSeq(str, i + 1, i + Len(part)) = part

\* the positions of a token in a string
PositionsOf(str, token) == {i \in 1..Len(str) : str[i] = token}

\* the subvol= value of the mount-table entry of the root mountpoint
RootSubvol == MountSubvol([mountpoint |-> Some(RootPath)], topo.mounts)

\* C11: whenever the root filesystem is Btrfs and its mount-table entry carries
\* subvol=<S>, the cmdline of get_rootfs_device(P).cmd_line() contains
\* `root=UUID=<uuid> rootfsflags=subvol=<S>`, with an empty backing chain as
\* well as on top of a chain, and every rd.luks.uuid= fragment of the chain
\* comes before the root= fragment.
C11_BtrfsSubvol ==
    topo.pc = "done" /\ topo.kinds[1] = "Btrfs" /\ RootSubvol.some =>
        /\ HasInfix(topo.out, <<W("root=UUID="), Atom("uuid", 1), Blank,
                                W("rootfsflags=subvol="), RootSubvol.v>>)
        /\ \A l \in PositionsOf(topo.out, W("rd.luks.uuid=")),
              r \in PositionsOf(topo.out, W("root=UUID=")) : l < r

(***************************************************************************)
(* cmdline.d directories and cmdline_snippet                               *)
(***************************************************************************)
\* a file name of a cmdline.d directory: `stem` orders the names (10-..., 20-...)
FileName(stem, ext) == [stem |-> stem, ext |-> ext]

CmdlineNames == {FileName(10, "cmdline"), FileName(20, "cmdline"), FileName(30, "conf")}

\* the lines of the file `name` of directory `origin`: a comment, then the text
\* (an atom that tells the file), padded with blanks; one file has two lines
SnippetLines(origin, name) ==
    << <<W("#"), Blank, W("comment")>>, <<Blank, Atom(origin, name.stem), Blank>> >>
    \o (IF name.stem = 20 THEN << <<W("x")>> >> ELSE <<>>)

\* a directory entry: a regular file, a symlink to /dev/null ("devnull") or a
\* symlink to a regular file elsewhere ("link")
DirEntry(name, kind, lines) == [name |-> name, kind |-> kind, lines |-> lines]

DirEntryOf(origin, name, kind) ==
    DirEntry(name, kind,
             IF kind = "devnull" THEN <<>>
             ELSE IF kind = "link" THEN SnippetLines("lnk", name)
             ELSE SnippetLines(origin, name))

\* every directory over the names, each name absent or of one of the kinds
Directories(origin, names, kinds) ==
    {{DirEntryOf(origin, n, pick[n]) : n \in {m \in names : pick[m] # "absent"}} :
        pick \in [names -> kinds \cup {"absent"}]}

\* the orders in which read_dir can return the entries of a directory
RECURSIVE Orders(_)
Orders(S) ==
    IF S = {} THEN {<<>>}
    ELSE UNION {{<<x>> \o rest : rest \in Orders(S \ {x})} : x \in S}

\* file_utils::cmdline_snippet (lines 142-153)
cmdline_snippet(lines) ==
    join(SelectSeq([i \in 1..Len(lines) |-> trim(lines[i])],
                   LAMBDA l : ~(Len(l) > 0 /\ l[1] = W("#"))))

(***************************************************************************)
(* BootEnvironment::new and Manager::new                                   *)
(***************************************************************************)
\* config.root.path().join(leaf)
RootJoin(leaf) == W(leaf)

\* directories a boot partition can already be mounted at
MountDirs == {RootJoin("/boot"), RootJoin("/efi"), W("/mnt")}

OptDirs == {None} \cup {Some(d) : d \in MountDirs}

\* what discovery finds: the firmware, whether an ESP device and an XBOOTLDR
\* partition are found, and where the mount table has them mounted
Discoveries ==
    {d \in [firmware : {"UEFI", "BIOS"}, esp : BOOLEAN, xbootldr : BOOLEAN,
            esp_at : OptDirs, xboot_at : OptDirs] :
        \* a device that is not there is not mounted
        /\ (~d.esp => ~d.esp_at.some)
        /\ (~d.xbootldr => ~d.xboot_at.some)
        \* two partitions are not mounted on one directory
        /\ (d.esp_at.some /\ d.xboot_at.some => d.esp_at # d.xboot_at)}

\* BootEnvironment::new (bootenv.rs 76-117): Err(NoESP) under UEFI without ESP
BootEnvironment_new(d) ==
    IF d.firmware = "UEFI" /\ ~d.esp
    THEN [ok |-> FALSE, firmware |-> d.firmware, esp |-> FALSE, xbootldr |-> FALSE,
          esp_mountpoint |-> None, xboot_mountpoint |-> None]
    ELSE [ok |-> TRUE, firmware |-> d.firmware, esp |-> d.esp,
          xbootldr |-> d.esp /\ d.xbootldr,
          esp_mountpoint |-> IF d.esp THEN d.esp_at ELSE None,
          xboot_mountpoint |-> IF d.esp /\ d.xbootldr THEN d.xboot_at ELSE None]

\* the .cmdline entries of the listing (manager.rs 60-68)
etc_entries(listing) == SelectSeq(listing, LAMBDA d : d.name.ext = "cmdline")

\* is_symlink() && read_link() == "/dev/null" (lines 73-75)
is_devnull(d) == d.kind = "devnull"

\* system_excludes after the loop of lines 71-86
system_excludes(ds) ==
    LET masked == SelectSeq(ds, is_devnull)
    IN  [i \in 1..Len(masked) |-> masked[i].name]

\* local_cmdline after the loop of lines 71-86
local_cmdline(ds) ==
    LET read == SelectSeq(ds, LAMBDA d : ~is_devnull(d))
    IN  [i \in 1..Len(read) |-> cmdline_snippet(read[i].lines)]

\* the Mounts selected by Manager::new (lines 93-119)
select_mounts(be) ==
    LET xbootldr == IF be.xboot_mountpoint.some THEN be.xboot_mountpoint
                    ELSE IF be.xbootldr THEN Some(RootJoin("/boot")) ELSE None
        esp == IF be.esp_mountpoint.some THEN be.esp_mountpoint
               ELSE IF be.esp THEN Some(RootJoin("/efi")) ELSE None
    IN  [xbootldr |-> IF xbootldr.some /\ esp.some /\ esp = xbootldr /\ ~be.xbootldr
                      THEN Some(RootJoin("/xboot")) ELSE xbootldr,
         esp |-> esp]

\* Manager::new (lines 49-132) on a system `e` whose /etc/kernel/cmdline.d is
\* listed in the order `listing`
Manager_new(e, listing) ==
    LET be == BootEnvironment_new(e.disc)
        ds == etc_entries(listing)
    IN  [ pc |-> IF be.ok THEN "ready" ELSE "failed",
          err |-> IF be.ok THEN "" ELSE "NoESP",
          boot_env |-> be,
          entries |-> <<>>,
          cmdline |-> IF be.ok THEN <<e.rootfrag, <<W("rw")>>>> \o local_cmdline(ds) ELSE <<>>,
          system_excluded_snippets |-> IF be.ok THEN system_excludes(ds) ELSE <<>>,
          mounts |-> IF be.ok THEN select_mounts(be) ELSE [xbootldr |-> None, esp |-> None] ]

MgrNew == [pc |-> "new", err |-> "", boot_env |-> BootEnvironment_new(
               [firmware |-> "UEFI", esp |-> FALSE, xbootldr |-> FALSE,
                esp_at |-> None, xboot_at |-> None]),
           entries |-> <<>>, cmdline |-> <<>>, system_excluded_snippets |-> <<>>,
           mounts |-> [xbootldr |-> None, esp |-> None]]

\* let manager = Manager::new(&config)
manager_new ==
    /\ mgr.pc = "new"
    /\ \E listing \in Orders(env.etc) : mgr' = Manager_new(env, listing)
    /\ UNCHANGED <<fileVars, topoVars, env, entries, vol, sy>>


(***************************************************************************)
(* Entry: ids, installed names, cmdline snippets (entry.rs)                *)
(***************************************************************************)
Versions == {1, 2, 3}

Version(k) == Atom("version", k)

\* Entry::new (lines 35-42), for a kernel with the given version, optional
\* kernel cmdline (a sequence of at most one string) and Cmdline extras
Entry_new(version, kcmdline, extras) ==
    [version |-> version, kcmdline |-> kcmdline, extras |-> extras, initrd |-> <<>>,
     cmdline |-> <<>>, state_id |-> None, loaded |-> FALSE]

\* an AuxiliaryFile of kind InitRD; file number k stands for its file name
InitRD(k) == [path |-> Atom("initrd-file", k), kind |-> "InitRD"]

\* the entry of a kernel that has n initrds
with_initrds(entry, n) == [entry EXCEPT !.initrd = [k \in 1..n |-> InitRD(k)]]

\* Entry::with_state_id
with_state_id(entry, id) == [entry EXCEPT !.state_id = Some(Atom("state", id))]

\* a CmdlineEntry
CmdlineEntry(name, snippet) == [name |-> name, snippet |-> snippet]

\* Entry::load_cmdline_snippets (lines 45-81): the kernel's own Cmdline extras,
\* then every file of /usr/lib/kernel/cmdline.d in the order it is listed
load_cmdline_snippets_of(entry, listing) ==
    LET own == [i \in 1..Len(entry.extras) |->
                    CmdlineEntry(entry.extras[i].name, cmdline_snippet(entry.extras[i].lines))]
        globals == [i \in 1..Len(listing) |->
                    CmdlineEntry(listing[i].name, cmdline_snippet(listing[i].lines))]
    IN  [entry EXCEPT !.cmdline = @ \o own \o globals, !.loaded = TRUE]

\* Schema: the prefix is os_release.name (Legacy) or os_release.id (Blsforme)
Schemas == {"Legacy", "Blsforme"}

schema_prefix(schema) == IF schema = "Legacy" THEN W("os-name") ELSE W("os-id")

\* Entry::id, mutated: the state id is never appended
id_without_state(entry, schema) ==
    <<schema_prefix(schema), W("-"), Version(entry.version)>>

\* Entry::id (lines 110-121)
id(entry, schema) ==
    <<schema_prefix(schema), W("-"), Version(entry.version)>>
    \o (IF entry.state_id.some THEN <<W("-"), entry.state_id.v>> ELSE <<>>)

\* Entry::installed_kernel_name (lines 125-135), as path components
installed_kernel_name(entry, schema) ==
    IF schema = "Legacy" THEN <<Atom("kernel-image", entry.version)>>
    ELSE <<Version(entry.version), W("vmlinuz")>>

\* Entry::installed_asset_name (lines 139-157), as path components; the token
\* of the Legacy name stands for `initrd-<file name>`
installed_asset_name(entry, schema, asset) ==
    IF schema = "Legacy"
    THEN IF asset.kind = "InitRD" THEN Some(<<Atom("initrd-", asset.path.n)>>) ELSE None
    ELSE IF asset.kind = "InitRD" THEN Some(<<Version(entry.version), asset.path>>) ELSE None

\* Path::to_string_lossy / Display: the components separated by `/`
RECURSIVE display(_)
display(path) ==
    IF Len(path) = 0 THEN <<>>
    ELSE IF Len(path) = 1 THEN <<path[1]>>
    ELSE <<path[1], W("/")>> \o display(Tail(path))

\* Path::parent
parent(path) == SubSeq(path, 1, Len(path) - 1)

(***************************************************************************)
(* systemd_boot::Loader: sync, sync_entries, install                       *)
(***************************************************************************)
\* Loader::new (lines 45-68): the volume that takes the kernels and entries
boot_root(mounts) ==
    IF mounts.xbootldr.some THEN mounts.xbootldr
    ELSE IF mounts.esp.some THEN mounts.esp
    ELSE None

\* kernel_dir relative to boot_root (lines 54-59)
kernel_dir(schema) ==
    <<W("EFI"), IF schema = "Legacy" THEN W("namespace") ELSE W("os-id")>>

\* the destinations of Loader::sync (lines 78-98): the two targets joined to
\* the ESP mountpoint, as absolute paths
loader_sync_targets(mounts) ==
    {<<mounts.esp.v>> \o t : t \in {<<W("EFI"), W("Boot"), W("BOOTX64.EFI")>>,
                                     <<W("EFI"), W("systemd"), W("systemd-bootx64.efi")>>}}

\* a name of loader/entries
conf_name(entry, schema) == id(entry, schema) \o <<W(".conf")>>

\* str::starts_with
starts_with(name, prefix) == Len(name) > 0 /\ name[1] = prefix

\* the snippets of an entry that pass the exclusions (lines 114-119), mutated:
\* nothing is excluded
entry_cmdline_unfiltered(entry, exclusions) ==
    [i \in 1..Len(entry.cmdline) |-> entry.cmdline[i].snippet]

\* the snippets of an entry that pass the exclusions (lines 114-119)
entry_cmdline(entry, exclusions) ==
    LET kept == SelectSeq(entry.cmdline,
                          LAMBDA c : \A x \in 1..Len(exclusions) : exclusions[x] # c.name)
    IN  [i \in 1..Len(kept) |-> kept[i].snippet]

\* full_cmdline of lines 120-129
full_cmdline(base_cmdline, entry, exclusions) ==
    base_cmdline \o entry_cmdline(entry, exclusions) \o entry.kcmdline

\* InstallResult of Loader::install (lines 241-248), with the options written
InstallResult(entry, schema, options) ==
    [loader_conf |-> conf_name(entry, schema),
     kernel_dir |-> parent(kernel_dir(schema) \o installed_kernel_name(entry, schema)),
     options |-> options]

NL == W("\n")

\* the os-release fields the title is made of
OsRelease(pretty) ==
    [name |-> W("os-name"), pretty_name |-> IF pretty THEN Some(W("os-pretty")) ELSE None]

\* the initrd lines of generate_entry (lines 261-272)
RECURSIVE initrd_lines(_, _, _, _)
initrd_lines(asset_dir, entry, schema, i) ==
    IF i > Len(entry.initrd) THEN <<>>
    ELSE LET name == installed_asset_name(entry, schema, entry.initrd[i])
         IN  (IF name.some
              THEN <<NL, W("initrd /")>> \o asset_dir \o <<W("/")>> \o display(name.v)
              ELSE <<>>)
             \o initrd_lines(asset_dir, entry, schema, i + 1)

\* generate_entry, mutated: the title always uses os_release.name
generate_entry_name_only(asset_dir, cmdline, entry, schema, os) ==
    <<W("title "), os.name, W(" ("), Version(entry.version), W(")"),
      NL, W("linux /")>> \o asset_dir \o <<W("/")>>
    \o display(installed_kernel_name(entry, schema))
    \o (IF Len(entry.initrd) = 0 THEN <<NL>>
        ELSE <<NL>> \o initrd_lines(asset_dir, entry, schema, 1))
    \o <<NL, W("options ")>> \o cmdline \o <<NL>>

\* Loader::generate_entry (lines 257-287): the text of the stanza
generate_entry(asset_dir, cmdline, entry, schema, os) ==
    <<W("title "), IF os.pretty_name.some THEN os.pretty_name.v ELSE os.name,
      W(" ("), Version(entry.version), W(")"),
      NL, W("linux /")>> \o asset_dir \o <<W("/")>>
    \o display(installed_kernel_name(entry, schema))
    \o (IF Len(entry.initrd) = 0 THEN <<NL>>
        ELSE <<NL>> \o initrd_lines(asset_dir, entry, schema, 1))
    \o <<NL, W("options ")>> \o cmdline \o <<NL>>

\* the destinations of the changeset of Loader::install (lines 192-215), as
\* they read relative to boot_root: vmlinuz and every initrd that has a name
changeset(entry, schema) ==
    {display(kernel_dir(schema) \o installed_kernel_name(entry, schema))}
    \cup {display(kernel_dir(schema) \o installed_asset_name(entry, schema, entry.initrd[k]).v) :
            k \in {j \in 1..Len(entry.initrd) :
                      installed_asset_name(entry, schema, entry.initrd[j]).some}}

\* fs::remove_dir_all(tree) (line 174): the files that are not below the tree
remove_dir_all(assets, tree) ==
    LET under == display(tree) \o <<W("/")>>
    IN  {a \in assets : ~(Len(a) >= Len(under) /\ SubSeq(a, 1, Len(under)) = under)}

\* fs::write(path, text) on the files of loader/entries whose text is known
write(stanzas, path, text) ==
    {w \in stanzas : w.conf # path} \cup {[conf |-> path, text |-> text]}

\* loader_files (lines 143-147): the prefixed names of loader/entries
loader_files(v, schema) == {f \in v.confs : starts_with(f, schema_prefix(schema))}

\* kernel_dirs (lines 149-153): the subdirectories of kernel_dir, as paths
kernel_dirs(v, schema) == {kernel_dir(schema) \o <<d>> : d \in v.kdirs}

\* obsolete_loader_confs, mutated: every prefixed file is obsolete
obsolete_loader_confs_all(v, schema, installed) == loader_files(v, schema)

\* obsolete_loader_confs (lines 155-158)
obsolete_loader_confs(v, schema, installed) ==
    {f \in loader_files(v, schema) :
        ~\E e \in 1..Len(installed) : installed[e].loader_conf = f}

\* obsolete_kernels, mutated: every kernel tree is obsolete
obsolete_kernels_all(v, schema, installed) == kernel_dirs(v, schema)

\* obsolete_kernels (lines 160-163)
obsolete_kernels(v, schema, installed) ==
    {f \in kernel_dirs(v, schema) :
        ~\E e \in 1..Len(installed) : installed[e].kernel_dir = f}

\* most removals that fail in one sync_entries
MaxFailures == 1

\* most entries handed to the manager
MaxEntries == 2

SyncIdle == [pc |-> "idle", err |-> "", i |-> 1, installed |-> <<>>,
             removed |-> {}, kept |-> {}, guards |-> <<>>, log |-> <<>>]

\* entry.load_cmdline_snippets(&config), for the next entry of the caller's list
load_cmdline_snippets ==
    /\ mgr.pc = "ready"
    /\ \E i \in 1..Len(entries) :
         /\ ~entries[i].loaded
         /\ \A j \in 1..(i - 1) : entries[j].loaded
         /\ \E listing \in Orders(env.usr) :
              entries' = [entries EXCEPT ![i] = load_cmdline_snippets_of(@, listing)]
    /\ UNCHANGED <<fileVars, topoVars, env, mgr, vol, sy>>

\* manager.with_entries(entries) (manager.rs 135-140)
with_entries ==
    /\ mgr.pc = "ready"
    /\ \A i \in 1..Len(entries) : entries[i].loaded
    /\ mgr' = [mgr EXCEPT !.pc = "with_entries", !.entries = entries]
    /\ UNCHANGED <<fileVars, topoVars, env, entries, vol, sy>>

\* Manager::mount_partitions, mutated: a new guard is pushed at the end of the
\* vector
mounted_paths_pushed(image, be, mounts) ==
    IF image THEN [err |-> "", guards |-> <<>>]
    ELSE IF be.esp /\ ~be.esp_mountpoint.some /\ ~mounts.esp.some
    THEN [err |-> "NoESP", guards |-> <<>>]
    ELSE IF be.xbootldr /\ ~be.xboot_mountpoint.some /\ ~mounts.xbootldr.some
    THEN [err |-> "NoXBOOTLDR", guards |-> <<>>]
    ELSE [err |-> "",
          guards |-> (IF be.esp /\ ~be.esp_mountpoint.some
                      THEN <<mounts.esp.v>> ELSE <<>>)
                     \o (IF be.xbootldr /\ ~be.xboot_mountpoint.some
                         THEN <<mounts.xbootldr.v>> ELSE <<>>)]

\* the ScopedMounts of Manager::mount_partitions (manager.rs 151-176), the
\* latest mount first: none in image mode, else the ESP and the XBOOTLDR
\* partition when found and not mounted yet
mounted_paths(image, be, mounts) ==
    IF image THEN [err |-> "", guards |-> <<>>]
    ELSE IF be.esp /\ ~be.esp_mountpoint.some /\ ~mounts.esp.some
    THEN [err |-> "NoESP", guards |-> <<>>]
    ELSE IF be.xbootldr /\ ~be.xboot_mountpoint.some /\ ~mounts.xbootldr.some
    THEN [err |-> "NoXBOOTLDR", guards |-> <<>>]
    ELSE [err |-> "",
          guards |-> (IF be.xbootldr /\ ~be.xboot_mountpoint.some
                      THEN <<mounts.xbootldr.v>> ELSE <<>>)
                     \o (IF be.esp /\ ~be.esp_mountpoint.some
                         THEN <<mounts.esp.v>> ELSE <<>>)]

\* the drop of a Vec<ScopedMount>, mutated: the guards are forgotten
drop_guards_forget(guards, bad) == <<>>

\* the drop of a Vec<ScopedMount> (manager.rs 248-258): ScopedMount::drop for
\* each guard from the head of the vector on; the umount of the guards in
\* `bad` fails and is logged
drop_guards(guards, bad) ==
    [i \in 1..Len(guards) |->
        Ev(IF i \in bad THEN "umount_failed" ELSE "umount", guards[i])]

\* let _parts = manager.mount_partitions()?: every mount succeeds and the
\* guards are returned, or one mount fails and the guards made so far are
\* dropped on the way out
mount_partitions ==
    /\ mgr.pc = "with_entries"
    /\ sy.pc = "idle"
    /\ LET parts == mounted_paths(env.image, mgr.boot_env, mgr.mounts)
           n == Len(parts.guards)
           \* mount_vfat_partition (manager.rs 192-203) for the first k of the
           \* partitions to mount, the ESP first
           mount_vfat_partitions(guards, k) ==
               [i \in 1..k |-> Ev("mount", guards[Len(guards) + 1 - i])]
       IN  IF parts.err # ""
           THEN sy' = [sy EXCEPT !.pc = "failed", !.err = parts.err]
           ELSE \/ sy' = [sy EXCEPT !.pc = "mounted", !.guards = parts.guards,
                                    !.log = mount_vfat_partitions(parts.guards, n)]
                \/ \E failed \in 1..n : \E bad \in SUBSET (1..(failed - 1)) :
                     sy' = [sy EXCEPT
                              !.pc = "failed", !.err = "mount",
                              !.log = mount_vfat_partitions(parts.guards, failed - 1)
                                      \o drop_guards(SubSeq(parts.guards, n - failed + 2, n), bad)]
    /\ UNCHANGED <<fileVars, topoVars, env, mgr, entries, vol>>

\* _parts goes out of scope once the manager is done with (main.rs 162-166)
drop_parts ==
    /\ sy.pc \notin {"idle", "mounted", "entries"}
    /\ sy.guards # <<>>
    /\ \E bad \in SUBSET (1..Len(sy.guards)) :
         sy' = [sy EXCEPT !.guards = <<>>, !.log = @ \o drop_guards(sy.guards, bad)]
    /\ UNCHANGED <<fileVars, topoVars, env, mgr, entries, vol>>

\* the image-mode check of Manager::sync, mutated: it never fires
unmounted_esp_never(image, be) == FALSE

\* the image-mode check of Manager::sync (manager.rs 210-216)
unmounted_esp(image, be) == image /\ be.esp /\ ~be.esp_mountpoint.some

\* Manager::sync (manager.rs 209-221) up to sync_entries: the image-mode check,
\* the bootloader factory and Loader::sync
manager_sync ==
    /\ mgr.pc = "with_entries"
    /\ sy.pc = "mounted"
    /\ IF unmounted_esp(env.image, mgr.boot_env)
       THEN sy' = [sy EXCEPT !.pc = "failed", !.err = "UnmountedESP"] /\ UNCHANGED vol
       ELSE IF mgr.boot_env.firmware = "BIOS"
       THEN sy' = [sy EXCEPT !.pc = "panicked", !.err = "unimplemented"] /\ UNCHANGED vol
       ELSE IF ~boot_root(mgr.mounts).some
       THEN sy' = [sy EXCEPT !.pc = "failed", !.err = "MissingMount"] /\ UNCHANGED vol
       ELSE IF ~env.assets
       THEN sy' = [sy EXCEPT !.pc = "failed", !.err = "MissingFile"] /\ UNCHANGED vol
       ELSE /\ sy' = [sy EXCEPT !.pc = "entries"]
            /\ vol' = [vol EXCEPT !.esp = @ \cup loader_sync_targets(mgr.mounts)]
    /\ UNCHANGED <<fileVars, topoVars, env, mgr, entries>>

\* one turn of the loop of sync_entries (lines 113-133) with Loader::install
install ==
    /\ sy.pc = "entries"
    /\ sy.i <= Len(mgr.entries)
    /\ LET entry == mgr.entries[sy.i]
           options == join(full_cmdline(mgr.cmdline, entry, mgr.system_excluded_snippets))
           result == InstallResult(entry, env.schema, options)
           loader_config == generate_entry(display(kernel_dir(env.schema)), options, entry,
                                           env.schema, OsRelease(env.pretty_name))
       IN  /\ sy' = [sy EXCEPT !.i = @ + 1, !.installed = Append(@, result)]
           /\ vol' = [vol EXCEPT !.entries_dir = TRUE, !.kernel_dir = TRUE,
                                 !.confs = @ \cup {result.loader_conf},
                                 !.stanzas = write(@, result.loader_conf, loader_config),
                                 !.assets = @ \cup changeset(entry, env.schema),
                                 !.kdirs = IF env.schema = "Blsforme"
                                           THEN @ \cup {Version(entry.version)} ELSE @]
    /\ UNCHANGED <<fileVars, topoVars, env, mgr, entries>>

\* the rest of sync_entries (lines 135-179): what is on the volume and was not
\* installed is removed; a removal that fails is logged and skipped
reconcile ==
    /\ sy.pc = "entries"
    /\ sy.i > Len(mgr.entries)
    /\ IF ~vol.entries_dir \/ ~vol.kernel_dir
       THEN sy' = [sy EXCEPT !.pc = "failed", !.err = "read_dir"] /\ UNCHANGED vol
       ELSE LET confs == obsolete_loader_confs(vol, env.schema, sy.installed)
                trees == obsolete_kernels(vol, env.schema, sy.installed)
            IN  \E failing \in SUBSET (confs \cup trees) :
                  /\ Cardinality(failing) <= MaxFailures
                  /\ vol' = [vol EXCEPT
                               !.confs = @ \ (confs \ failing),
                               !.stanzas = {w \in @ : w.conf \notin confs \ failing},
                               !.kdirs = {d \in @ : kernel_dir(env.schema) \o <<d>> \notin trees \ failing},
                               !.assets = {a \in @ : \A tree \in trees \ failing :
                                               a \in remove_dir_all(@, tree)}]
                  /\ sy' = [sy EXCEPT !.pc = "done", !.kept = failing,
                                      !.removed = (confs \cup trees) \ failing]
    /\ UNCHANGED <<fileVars, topoVars, env, mgr, entries>>

(***************************************************************************)
(* The systems the manager is run on                                       *)
(***************************************************************************)
\* root.cmd_line() of the systems modelled: a UUID root, and the empty string
\* of a root device whose superblock is unknown
RootFragments == {<<W("root=UUID="), Atom("uuid", 1)>>, <<>>}

\* a plain UEFI setup: the ESP mounted at /efi, no XBOOTLDR
PlainDiscovery ==
    [firmware |-> "UEFI", esp |-> TRUE, xbootldr |-> FALSE,
     esp_at |-> Some(RootJoin("/efi")), xboot_at |-> None]

PlainEtc == {DirEntryOf("etc", FileName(10, "cmdline"), "file")}

\* a volume that has neither loader/entries nor the kernel directory yet
FreshVolume ==
    [entries_dir |-> FALSE, kernel_dir |-> FALSE, confs |-> {}, kdirs |-> {}, esp |-> {},
     stanzas |-> {}, assets |-> {}]

\* the names loader/entries can hold before the sync: entries of this schema
\* and a file of another system
ConfNames(schema) ==
    {<<schema_prefix(schema), W("-"), Version(k), W(".conf")>> : k \in Versions}
    \cup {<<W("other"), W("-"), Version(1), W(".conf")>>}

\* what an earlier sync left for version k: the stanza of its entry
EarlierStanza(schema, k) ==
    [conf |-> conf_name(Entry_new(k, <<>>, <<>>), schema),
     text |-> generate_entry(display(kernel_dir(schema)), <<>>, Entry_new(k, <<>>, <<>>),
                             schema, OsRelease(FALSE))]

\* the volumes a sync starts on: a fresh one, or one with confs and kernel
\* directories of earlier syncs; a kernel directory of the Blsforme schema
\* holds its vmlinuz, a Legacy kernel lies in kernel_dir next to the
\* directories
Volumes(schema) ==
    {FreshVolume} \cup
    {[entries_dir |-> TRUE, kernel_dir |-> TRUE, confs |-> confs, kdirs |-> kdirs, esp |-> {},
      stanzas |-> {EarlierStanza(schema, k) : k \in {j \in Versions :
                        conf_name(Entry_new(j, <<>>, <<>>), schema) \in confs}},
      assets |-> IF schema = "Blsforme"
                 THEN {display(kernel_dir(schema) \o <<Version(k), W("vmlinuz")>>) :
                          k \in {j \in Versions : Version(j) \in kdirs}}
                 ELSE UNION {changeset(Entry_new(k, <<>>, <<>>), schema) :
                                k \in {j \in Versions :
                                    conf_name(Entry_new(j, <<>>, <<>>), schema) \in confs}}] :
        confs \in SUBSET ConfNames(schema), kdirs \in SUBSET {Version(k) : k \in Versions}}

PlainEntry == Entry_new(1, <<>>, <<>>)

\* the kernel's own snippet, and its kernel cmdline
OwnSnippet == DirEntryOf("own", FileName(40, "cmdline"), "file")

KernelCmdline == <<Atom("kernel", 1)>>

\* systems that differ in the boot devices found and where they are mounted
InitMounts ==
    /\ \E disc \in Discoveries, image \in BOOLEAN, assets \in BOOLEAN, rootfrag \in RootFragments :
         env = [etc |-> PlainEtc, usr |-> {}, rootfrag |-> rootfrag, disc |-> disc,
                image |-> image, assets |-> assets, schema |-> "Blsforme",
                pretty_name |-> FALSE]
    /\ entries = <<PlainEntry>>
    /\ vol = FreshVolume

\* systems that differ in /etc/kernel/cmdline.d, /usr/lib/kernel/cmdline.d and
\* the snippets and kernel cmdline of the entries
InitCmdline ==
    /\ \E etc \in Directories("etc", CmdlineNames, {"file", "devnull", "link"}),
          usr \in Directories("usr", CmdlineNames, {"file"}) :
         env = [etc |-> etc, usr |-> usr, rootfrag |-> <<W("root=UUID="), Atom("uuid", 1)>>,
                disc |-> PlainDiscovery, image |-> FALSE, assets |-> TRUE, schema |-> "Blsforme",
                pretty_name |-> FALSE]
    /\ entries \in
         {<<Entry_new(1, kcmdline, extras)>> :
             kcmdline \in {<<>>, <<KernelCmdline>>}, extras \in {<<>>, <<OwnSnippet>>}}
         \cup {<<PlainEntry, Entry_new(2, <<KernelCmdline>>, <<>>)>>}
    /\ vol = FreshVolume

\* systems that differ in what the boot volume holds and in the entries given
InitVolume ==
    /\ \E schema \in Schemas :
         /\ env = [etc |-> PlainEtc, usr |-> {}, rootfrag |-> <<W("root=UUID="), Atom("uuid", 1)>>,
                   disc |-> PlainDiscovery, image |-> FALSE, assets |-> TRUE, schema |-> schema,
                   pretty_name |-> FALSE]
         /\ vol \in Volumes(schema)
    /\ entries \in SeqsUpTo({Entry_new(k, <<>>, <<>>) : k \in Versions}
                            \cup {with_state_id(PlainEntry, 7)}, MaxEntries)

\* most initrds of a kernel
MaxInitrds == 2

\* systems that differ in what the stanza of an entry is made of: the schema,
\* PRETTY_NAME of os-release, the initrds of the kernel and its cmdline
InitStanza ==
    /\ \E schema \in Schemas, pretty \in BOOLEAN :
         env = [etc |-> PlainEtc, usr |-> {}, rootfrag |-> <<W("root=UUID="), Atom("uuid", 1)>>,
                disc |-> PlainDiscovery, image |-> FALSE, assets |-> TRUE, schema |-> schema,
                pretty_name |-> pretty]
    /\ \E n \in 0..MaxInitrds, kcmdline \in {<<>>, <<KernelCmdline>>} :
         entries \in {<<with_initrds(Entry_new(1, kcmdline, <<>>), n)>>,
                      <<with_initrds(Entry_new(1, kcmdline, <<>>), n), Entry_new(2, <<>>, <<>>)>>}
    /\ vol = FreshVolume

Init ==
    /\ FileIdle
    /\ topo = TopoIdle /\ ProbeIdle
    /\ mgr = MgrNew
    /\ sy = SyncIdle
    /\ (InitMounts \/ InitCmdline \/ InitVolume \/ InitStanza)

Next ==
    \/ manager_new
    \/ load_cmdline_snippets
    \/ with_entries
    \/ mount_partitions
    \/ manager_sync
    \/ install
    \/ reconcile
    \/ drop_parts

Spec == Init /\ [][Next]_vars

(***************************************************************************)
(* Claims about Manager::new and sync_entries                              *)
(***************************************************************************)
\* the set of the elements of a sequence
Range(seq) == {seq[i] : i \in 1..Len(seq)}

\* the token occurs in the string
Contains(str, token) == \E i \in 1..Len(str) : str[i] = token

\* C6: after Manager::new, whenever both the ESP and the XBOOTLDR slot of Mounts
\* are set they name different directories, for every combination of devices
\* found and mountpoints already mounted.
C6_DistinctMountpoints ==
    mgr.pc # "new" /\ mgr.pc # "failed" =>
        (mgr.mounts.esp.some /\ mgr.mounts.xbootldr.some
            => mgr.mounts.esp.v # mgr.mounts.xbootldr.v)

\* the entries of a directory as a sequence in file name order
RECURSIVE InNameOrder(_)
InNameOrder(S) ==
    IF S = {} THEN <<>>
    ELSE LET first == CHOOSE d \in S : \A o \in S : d.name.stem <= o.name.stem
         IN  <<first>> \o InNameOrder(S \ {first})

\* C9: the base cmdline is the root-device fragment, then `rw`, then the
\* snippets of /etc/kernel/cmdline.d/*.cmdline in file name order, whatever
\* order the directory listing returned them in.
C9_EtcInNameOrder ==
    mgr.pc # "new" /\ mgr.pc # "failed" =>
        LET read == InNameOrder({d \in env.etc : d.name.ext = "cmdline" /\ d.kind # "devnull"})
        IN  mgr.cmdline = <<env.rootfrag, <<W("rw")>>>>
                            \o [i \in 1..Len(read) |-> cmdline_snippet(read[i].lines)]

\* the snippets of the entry whose name is not excluded, in the entry's order
NotExcluded(entry) ==
    SelectSeq(entry.cmdline, LAMBDA c : c.name \notin Range(mgr.system_excluded_snippets))

\* C7: the options string handed to install for an entry is the base cmdline
\* tokens, then the text of each snippet of the entry whose name is not
\* excluded, in the entry's order, then the kernel cmdline if there is one,
\* joined by single spaces.
C7_OptionsOrder ==
    \A i \in 1..Len(sy.installed) :
        LET entry == mgr.entries[i]
            kept == NotExcluded(entry)
        IN  sy.installed[i].options =
                join(mgr.cmdline \o [k \in 1..Len(kept) |-> kept[k].snippet] \o entry.kcmdline)

\* C7 witness: install has been handed an entry that has a kernel cmdline, a
\* snippet that is excluded and a snippet that is not.
C7_Witness ==
    \E i \in 1..Len(sy.installed) :
        LET entry == mgr.entries[i]
        IN  /\ entry.kcmdline # <<>>
            /\ Len(NotExcluded(entry)) > 0
            /\ Len(NotExcluded(entry)) < Len(entry.cmdline)

\* the names that /etc/kernel/cmdline.d masks with a symlink to /dev/null
Masked == {d.name : d \in {e \in env.etc : e.kind = "devnull"}}

\* C8: for every name n that /etc/kernel/cmdline.d links to /dev/null, the
\* options of every entry leave out the contents of the snippet n of
\* /usr/lib/kernel/cmdline.d and the symlink adds nothing; the snippets of
\* /usr/lib/kernel/cmdline.d with other names are all there.
C8_MaskedLeftOut ==
    \A i \in 1..Len(sy.installed) :
        /\ \A n \in Masked :
              /\ ~Contains(sy.installed[i].options, Atom("usr", n.stem))
              /\ ~Contains(sy.installed[i].options, Atom("etc", n.stem))
              /\ ~Contains(sy.installed[i].options, Atom("lnk", n.stem))
        /\ \A d \in env.usr :
              d.name \notin Masked => Contains(sy.installed[i].options, Atom("usr", d.name.stem))

\* the loader confs and the kernel directories of the entries given
GivenConfs == {sy.installed[i].loader_conf : i \in 1..Len(sy.installed)}

GivenKernelDirs == {sy.installed[i].kernel_dir : i \in 1..Len(sy.installed)}

SchemaPrefixed == {f \in vol.confs : f[1] = schema_prefix(env.schema)}

Subdirectories == {kernel_dir(env.schema) \o <<d>> : d \in vol.kdirs}

\* what this call installed is on the volume
InstalledIsThere ==
    /\ GivenConfs \subseteq vol.confs
    /\ \A d \in GivenKernelDirs :
          IF d = kernel_dir(env.schema) THEN vol.kernel_dir ELSE d \in Subdirectories

C12_EntryId ==
    \A i \in 1..Len(sy.installed) :
        LET entry == mgr.entries[i]
            os == IF env.schema = "Legacy" THEN W("os-name") ELSE W("os-id")
            expected == IF entry.state_id.some
                        THEN <<os, W("-"), Atom("version", entry.version), W("-"),
                               entry.state_id.v>>
                        ELSE <<os, W("-"), Atom("version", entry.version)>>
        IN  sy.installed[i].loader_conf = expected \o <<W(".conf")>>

\* C12 witness: under the Legacy schema an entry with a state id and an entry
\* without one have been installed.
C12_Witness ==
    /\ env.schema = "Legacy"
    /\ \E i, j \in 1..Len(sy.installed) :
          mgr.entries[i].state_id.some /\ ~mgr.entries[j].state_id.some

\* C13: the ids of the entries of one sync_entries call are unique, and an
\* entry whose id repeats that of an earlier entry is not installed: no two
\* installs of the call write the same loader conf.
C13_DuplicateIdDetected ==
    \A i, j \in 1..Len(sy.installed) :
        i # j => sy.installed[i].loader_conf # sy.installed[j].loader_conf

\* str::lines: the pieces between line feeds, a final line feed ending the last
RECURSIVE SplitLines(_)
SplitLines(str) ==
    IF str = <<>> THEN <<>>
    ELSE LET feeds == PositionsOf(str, NL)
         IN  IF feeds = {} THEN <<str>>
             ELSE LET k == CHOOSE i \in feeds : \A j \in feeds : i <= j
                  IN  <<SubSeq(str, 1, k - 1)>> \o SplitLines(SubSeq(str, k + 1, Len(str)))

\* kernel_dir relative to boot_root, as it is written in a stanza
RelativeKernelDir ==
    <<W("EFI"), W("/"), IF env.schema = "Legacy" THEN W("namespace") ELSE W("os-id")>>

TitleLine(entry) ==
    <<W("title "), IF env.pretty_name THEN W("os-pretty") ELSE W("os-name"),
      W(" ("), Atom("version", entry.version), W(")")>>

LinuxLine(entry) ==
    <<W("linux /")>> \o RelativeKernelDir \o <<W("/")>>
    \o (IF env.schema = "Legacy" THEN <<Atom("kernel-image", entry.version)>>
        ELSE <<Atom("version", entry.version), W("/"), W("vmlinuz")>>)

InitrdLines(entry) ==
    [k \in 1..Len(entry.initrd) |->
        <<W("initrd /")>> \o RelativeKernelDir \o <<W("/")>>
        \o (IF env.schema = "Legacy" THEN <<Atom("initrd-", k)>>
            ELSE <<Atom("version", entry.version), W("/"), Atom("initrd-file", k)>>)]

OptionsLine(i) == <<W("options ")>> \o sy.installed[i].options

\* the installs whose stanza is the one on the volume: the last of each conf
LastInstalls ==
    {i \in 1..Len(sy.installed) :
        \A j \in (i + 1)..Len(sy.installed) :
            sy.installed[j].loader_conf # sy.installed[i].loader_conf}

\* the lines of the stanza that install i left on the volume
StanzaLines(i) ==
    LET w == CHOOSE w \in vol.stanzas : w.conf = sy.installed[i].loader_conf
    IN  SplitLines(w.text)

LoaderFiles == vol.esp

\* C15: bootloader sync writes exactly two files, EFI/Boot/BOOTX64.EFI and
\* EFI/systemd/systemd-bootx64.efi under the ESP mountpoint, and nothing under
\* the XBOOTLDR mountpoint, also when XBOOTLDR is the boot root; without the
\* systemd-bootx64.efi asset it fails and nothing is written.
C15_LoaderOnlyOnESP ==
    /\ sy.pc \in {"entries", "done"} =>
          /\ LoaderFiles = {<<mgr.mounts.esp.v, W("EFI"), W("Boot"), W("BOOTX64.EFI")>>,
                            <<mgr.mounts.esp.v, W("EFI"), W("systemd"), W("systemd-bootx64.efi")>>}
          /\ mgr.mounts.xbootldr.some =>
                \A f \in LoaderFiles : f[1] # mgr.mounts.xbootldr.v
    /\ sy.pc = "failed" /\ sy.err = "MissingFile" => vol = FreshVolume

\* the ESP was found and is not mounted on a system run in image mode
ImageWithUnmountedESP ==
    env.image /\ env.disc.esp /\ ~env.disc.esp_at.some

\* C16: in image mode with an ESP found but not mounted, Manager::sync returns
\* UnmountedESP and no file of a boot volume is written or removed;
\* mount_partitions in image mode mounts nothing and returns no guards.
C16_ImageModeUnmountedESP ==
    /\ env.image /\ sy.pc # "idle" => sy.guards = <<>>
    /\ ImageWithUnmountedESP /\ sy.pc \notin {"idle", "mounted"} =>
          /\ sy.pc = "failed" /\ sy.err = "UnmountedESP"
          /\ vol = FreshVolume
          /\ sy.installed = <<>> /\ sy.removed = {}

\* C16 witness: Manager::sync has returned UnmountedESP in image mode, with an
\* XBOOTLDR partition that is not mounted either.
C16_Witness ==
    /\ ImageWithUnmountedESP
    /\ env.disc.xbootldr /\ ~env.disc.xboot_at.some
    /\ sy.pc = "failed" /\ sy.err = "UnmountedESP"
    /\ sy.guards = <<>>

\* C17: with BIOS firmware, building the bootloader for a sync ends in the
\* Unsupported error returned to the caller, the process does not abort, and
\* nothing is written to a boot volume.
C17_BiosUnsupported ==
    /\ mgr.boot_env.firmware = "BIOS"
    /\ sy.pc \notin {"idle", "mounted"}
    /\ sy.err \notin {"UnmountedESP", "NoESP", "NoXBOOTLDR", "mount"}
    => /\ sy.pc = "failed" /\ sy.err = "Unsupported"
       /\ vol = FreshVolume

(***************************************************************************)
(* Kernel discovery (kernel.rs)                                            *)
(***************************************************************************)
Period == W(".")
Hyphen == W("-")

\* the namespace of the Legacy schema, one unit of text
Namespace == <<W("namespace")>>

\* the pieces of text the paths are made of, in byte order
ByteOrder ==
    <<Hyphen, Period, W(".cmdline"), W(".initrd"), W("/"), W("1"), W("2"), W("B"),
      W("System.map"), W("System.map-"), W("a"), W("b"), W("boot.json"), W("c"),
      W("cmdline-"), W("config"), W("config-"), W("initrd-"), W("namespace"),
      W("system.map"), W("system.map-"), W("vmlinuz"), W("x")>>

\* str::to_lowercase
to_lowercase(str) ==
    [i \in 1..Len(str) |->
        IF str[i] = W("B") THEN W("b")
        ELSE IF str[i] = W("System.map") THEN W("system.map")
        ELSE IF str[i] = W("System.map-") THEN W("system.map-")
        ELSE str[i]]

\* the order of String: byte-wise, a proper prefix first
RECURSIVE Less(_, _)
Less(a, b) ==
    IF Len(b) = 0 THEN FALSE
    ELSE IF Len(a) = 0 THEN TRUE
    ELSE IF a[1] # b[1]
         THEN LET Rank(unit) == CHOOSE i \in 1..Len(ByteOrder) : ByteOrder[i] = unit
              IN  Rank(a[1]) < Rank(b[1])
    ELSE Less(Tail(a), Tail(b))

\* a path below /usr/lib/kernel: the directory it is in (empty for the top
\* level) and its file name
KernelPath(dir, name) == [dir |-> dir, name |-> name]

AuxiliaryFile(path, kind) == [path |-> path, kind |-> kind]

Kernel(version, image, variant) ==
    [version |-> version, image |-> image, initrd |-> <<>>, extras |-> <<>>,
     variant |-> variant]

\* the key of sort_by_key: path.display().to_string().to_lowercase()
sort_key(aux) ==
    to_lowercase(IF aux.path.dir = <<>> THEN aux.path.name
                 ELSE aux.path.dir \o <<W("/")>> \o aux.path.name)

\* Vec::sort_by_key on the lowercased path: a stable sort
RECURSIVE sort_by_key(_)
sort_by_key(auxes) ==
    IF Len(auxes) <= 1 THEN auxes
    ELSE LET last == auxes[Len(auxes)]
             front == sort_by_key(SubSeq(auxes, 1, Len(auxes) - 1))
             before == SelectSeq(front, LAMBDA x : ~Less(sort_key(last), sort_key(x)))
             after == SelectSeq(front, LAMBDA x : Less(sort_key(last), sort_key(x)))
         IN  before \o <<last>> \o after

\* what the loop of legacy_kernels (lines 116-136) makes of one candidate: a
\* panic of split_at or of the assert, no kernel, or a kernel
parse_candidate(namespace, p) ==
    LET file_name == p.name
        mid == Len(namespace) + 1
    IN  IF mid > Len(file_name) THEN [res |-> "panic", kernel |-> Kernel(<<>>, p, <<>>)]
        ELSE IF file_name[mid] # Period THEN [res |-> "panic", kernel |-> Kernel(<<>>, p, <<>>)]
        ELSE LET right == SubSeq(file_name, mid + 1, Len(file_name))
                 dots == {i \in 1..Len(right) : right[i] = Period}
             IN  IF dots = {} THEN [res |-> "none", kernel |-> Kernel(<<>>, p, <<>>)]
                 ELSE LET dot == CHOOSE i \in dots : \A j \in dots : i <= j
                          variant == SubSeq(right, 1, dot - 1)
                          full_version == SubSeq(right, dot + 1, Len(right))
                      IN  IF \A i \in 1..Len(full_version) : full_version[i] # Hyphen
                          THEN [res |-> "none", kernel |-> Kernel(<<>>, p, <<>>)]
                          ELSE [res |-> "kernel",
                                kernel |-> Kernel(full_version, p, <<variant>>)]

\* the loop of lines 116-136 over the candidates, from candidate i on
RECURSIVE scan_candidates(_, _, _, _)
scan_candidates(namespace, candidates, i, map) ==
    IF i > Len(candidates) THEN [panicked |-> FALSE, map |-> map]
    ELSE LET c == parse_candidate(namespace, candidates[i])
         IN  IF c.res = "panic" THEN [panicked |-> TRUE, map |-> {}]
             ELSE scan_candidates(namespace, candidates, i + 1,
                                  IF c.res = "kernel"
                                  THEN {k \in map : k.version # c.kernel.version}
                                       \cup {c.kernel}
                                  ELSE map)

\* paths.iter().find(|p| p.ends_with(file)), as a sequence of at most one path
find_ends_with(paths, file) ==
    LET hits == {i \in 1..Len(paths) : paths[i].name = file}
    IN  IF hits = {} THEN <<>>
        ELSE <<paths[CHOOSE i \in hits : \A j \in hits : i <= j]>>

\* the companions of one Legacy kernel (lines 139-183)
legacy_aux(namespace, paths, kernel) ==
    LET variant_str == IF kernel.variant = <<>> THEN <<>> ELSE <<Period>> \o kernel.variant[1]
        companion(prefix, kind) ==
            LET found == find_ends_with(paths, <<W(prefix)>> \o kernel.version \o variant_str)
            IN  [i \in 1..Len(found) |-> AuxiliaryFile(found[i], kind)]
        initrd_file == <<W("initrd-")>> \o namespace
                       \o (IF kernel.variant = <<>> THEN <<>>
                           ELSE <<Period>> \o kernel.variant[1] \o <<Period>>)
                       \o kernel.version
        initrd == find_ends_with(paths, initrd_file)
    IN  [kernel EXCEPT
            !.extras = sort_by_key(companion("System.map-", "SystemMap")
                                   \o companion("cmdline-", "Cmdline")
                                   \o companion("config-", "Config")),
            !.initrd = sort_by_key([i \in 1..Len(initrd) |-> AuxiliaryFile(initrd[i], "InitRD")])]

\* BTreeMap::into_values: the values in the order of their keys
RECURSIVE into_values(_)
into_values(map) ==
    IF map = {} THEN <<>>
    ELSE LET first == CHOOSE k \in map : \A o \in map : o = k \/ Less(k.version, o.version)
         IN  <<first>> \o into_values(map \ {first})

\* Schema::legacy_kernels (lines 102-185)
legacy_kernels(namespace, paths) ==
    LET candidates == SelectSeq(paths, LAMBDA p :
                            /\ Len(p.name) >= Len(namespace)
                            /\ SubSeq(p.name, 1, Len(namespace)) = namespace)
        scanned == scan_candidates(namespace, candidates, 1, {})
    IN  IF scanned.panicked THEN [panicked |-> TRUE, kernels |-> <<>>]
        ELSE [panicked |-> FALSE,
              kernels |-> into_values({legacy_aux(namespace, paths, k) : k \in scanned.map})]

\* collect::<BTreeSet<_>>() and its iteration: the paths once each, in the
\* order of PathBuf, component by component
RECURSIVE all_paths(_)
all_paths(S) ==
    IF S = {} THEN <<>>
    ELSE LET components(p) == IF p.dir = <<>> THEN <<p.name>> ELSE <<p.dir, p.name>>
             PathLess(p, q) ==
                 IF components(p)[1] # components(q)[1]
                 THEN Less(components(p)[1], components(q)[1])
                 ELSE IF Len(components(q)) = 1 THEN FALSE
                 ELSE IF Len(components(p)) = 1 THEN TRUE
                 ELSE Less(components(p)[2], components(q)[2])
             first == CHOOSE p \in S : \A q \in S : q = p \/ PathLess(p, q)
         IN  <<first>> \o all_paths(S \ {first})

Vmlinuz == <<W("vmlinuz")>>

ends_with(str, suffix) ==
    Len(str) >= Len(suffix)
    /\ SubSeq(str, Len(str) - Len(suffix) + 1, Len(str)) = suffix

\* the loop over the assets of one kernel (lines 221-265), from asset i on:
\* the match on the file name (lines 227-249), a
\* push onto one of the two lists, then both lists sorted
RECURSIVE push_assets(_, _, _)
push_assets(kernel, assets, i) ==
    IF i > Len(assets) THEN kernel
    ELSE LET filename == assets[i].name
             kind == IF filename = <<W("System.map")>> THEN "SystemMap"
                     ELSE IF filename = <<W("boot.json")>> THEN "BootJSON"
                     ELSE IF filename = <<W("config")>> THEN "Config"
                     ELSE IF ends_with(filename, <<W(".initrd")>>) THEN "InitRD"
                     ELSE IF ends_with(filename, <<W(".cmdline")>>) THEN "Cmdline"
                     ELSE "None"
             aux == AuxiliaryFile(assets[i], kind)
             pushed == IF kind = "None" THEN kernel
                       ELSE IF kind = "InitRD"
                            THEN [kernel EXCEPT !.initrd = Append(kernel.initrd, aux)]
                       ELSE [kernel EXCEPT !.extras = Append(kernel.extras, aux)]
         IN  push_assets([pushed EXCEPT !.initrd = sort_by_key(pushed.initrd),
                                        !.extras = sort_by_key(pushed.extras)],
                         assets, i + 1)

\* the kernels of the HashMap, each with its assets (lines 189-266); the map is
\* kept as the set of its values
blsforme_map(paths) ==
    LET all == all_paths({paths[i] : i \in 1..Len(paths)})
        images == SelectSeq(all, LAMBDA p : p.name = Vmlinuz /\ p.dir # <<>>)
        versioned_assets(kernel) ==
            SelectSeq(all, LAMBDA p :
                /\ p.name # Vmlinuz
                /\ (p.dir = kernel.image.dir \/ (p.dir = <<>> /\ p.name = kernel.image.dir))
                /\ p.name # kernel.version)
    IN  {push_assets(Kernel(images[i].dir, images[i], <<>>),
                     versioned_assets(Kernel(images[i].dir, images[i], <<>>)), 1) :
            i \in 1..Len(images)}

\* Schema::blsforme_kernels (lines 188-269): HashMap::into_values yields the
\* kernels in an order the program does not control
blsforme_kernels(paths) == Orders(blsforme_map(paths))

\* the files below /usr/lib/kernel the listings are drawn from
LegacyVersion(k) == <<W(k), Hyphen, W("1")>>

LegacyImage(ns, variant, k) == KernelPath(<<>>, ns \o <<Period, W(variant), Period>> \o LegacyVersion(k))

LegacyFiles ==
    {LegacyImage(Namespace, "a", "1"), LegacyImage(Namespace, "a", "2"),
     LegacyImage(Namespace, "b", "1"),
     LegacyImage(Namespace \o <<W("x")>>, "a", "1"),
     KernelPath(<<>>, Namespace \o <<Period, W("a")>>),
     KernelPath(<<>>, <<W("System.map-")>> \o LegacyVersion("1") \o <<Period, W("a")>>),
     KernelPath(<<>>, <<W("cmdline-")>> \o LegacyVersion("1") \o <<Period, W("a")>>),
     KernelPath(<<>>, <<W("config-")>> \o LegacyVersion("1") \o <<Period, W("a")>>),
     KernelPath(<<>>, <<W("initrd-")>> \o Namespace \o <<Period, W("a"), Period>>
                      \o LegacyVersion("1"))}

BlsformeFiles ==
    {KernelPath(<<>>, <<W("1")>>), KernelPath(<<>>, Vmlinuz),
     KernelPath(<<W("1")>>, Vmlinuz), KernelPath(<<W("1")>>, <<W("System.map")>>),
     KernelPath(<<W("1")>>, <<W("boot.json")>>),
     KernelPath(<<W("1")>>, <<W("a"), W(".initrd")>>),
     KernelPath(<<W("1")>>, <<W("B"), W(".initrd")>>),
     KernelPath(<<W("1")>>, <<W("x"), W(".cmdline")>>),
     KernelPath(<<W("2")>>, Vmlinuz), KernelPath(<<W("2")>>, <<W("c"), W(".initrd")>>)}

\* the listings handed to discover_system_kernels: some of the files, in the
\* order of their names or against it
Listings(universe) ==
    UNION {{all_paths(S),
            [i \in 1..Len(all_paths(S)) |-> all_paths(S)[Len(all_paths(S)) + 1 - i]]} :
              S \in SUBSET universe}

InitKernels ==
    /\ FileIdle
    /\ BootIdle
    /\ topo = TopoIdle
    /\ efi = [pc |-> "idle"]
    /\ \/ \E paths \in Listings(LegacyFiles) :
            kern = [pc |-> "listed", schema |-> "Legacy", paths |-> paths, out |-> <<>>]
       \/ \E paths \in Listings(BlsformeFiles) :
            kern = [pc |-> "listed", schema |-> "Blsforme", paths |-> paths, out |-> <<>>]

\* discover_system_kernels (lines 94-99), Schema::Legacy
discover_legacy ==
    /\ kern.pc = "listed" /\ kern.schema = "Legacy"
    /\ LET found == legacy_kernels(Namespace, kern.paths)
       IN  kern' = [kern EXCEPT !.pc = IF found.panicked THEN "panicked" ELSE "returned",
                                !.out = found.kernels]
    /\ UNCHANGED <<fileVars, topo, efi, bootVars>>

\* discover_system_kernels (lines 94-99), Schema::Blsforme
discover_blsforme ==
    /\ kern.pc = "listed" /\ kern.schema = "Blsforme"
    /\ \E found \in blsforme_kernels(kern.paths) :
         kern' = [kern EXCEPT !.pc = "returned", !.out = found]
    /\ UNCHANGED <<fileVars, topo, efi, bootVars>>

NextKernels == discover_legacy \/ discover_blsforme

SpecKernels == InitKernels /\ [][NextKernels]_vars

\* C18: whatever the schema and the order of the listing, the kernels come back
\* in the order of their versions, and the initrd list and the extras list of
\* each are in the order of their lowercased paths.
VersionOrder(kernels) ==
    \A i, j \in 1..Len(kernels) : i < j => ~Less(kernels[j].version, kernels[i].version)

PathOrder(auxes) ==
    \A i, j \in 1..Len(auxes) : i < j => ~Less(sort_key(auxes[j]), sort_key(auxes[i]))

C18_SortedByVersion ==
    kern.pc = "returned"
    => /\ VersionOrder(kern.out)
       /\ \A i \in 1..Len(kern.out) :
            PathOrder(kern.out[i].initrd) /\ PathOrder(kern.out[i].extras)

\* C19: under the Legacy schema discovery returns, and what it returns is one
\* kernel for each path named <namespace>.<variant>.<version>-<release>, with
\* that version and variant and with the companions of that name that are in
\* the listing, and no kernel for any other path.
WellFormed(p) ==
    \E variant \in {"a", "b"}, k \in {"1", "2"} : p = LegacyImage(Namespace, variant, k)

Listed(paths, name) == {paths[i] : i \in {j \in 1..Len(paths) : paths[j].name = name}}

ExpectedKernel(paths, p) ==
    LET variant == p.name[Len(Namespace) + 2]
        version == SubSeq(p.name, Len(Namespace) + 4, Len(p.name))
        tail == version \o <<Period, variant>>
    IN  [version |-> version, image |-> p, variant |-> <<<<variant>>>>,
         extras |-> {AuxiliaryFile(q, "SystemMap") : q \in Listed(paths, <<W("System.map-")>> \o tail)}
                    \cup {AuxiliaryFile(q, "Cmdline") : q \in Listed(paths, <<W("cmdline-")>> \o tail)}
                    \cup {AuxiliaryFile(q, "Config") : q \in Listed(paths, <<W("config-")>> \o tail)},
         initrd |-> {AuxiliaryFile(q, "InitRD") :
                        q \in Listed(paths, <<W("initrd-")>> \o Namespace
                                            \o <<Period, variant, Period>> \o version)}]

AsExpected(kernel) ==
    [version |-> kernel.version, image |-> kernel.image, variant |-> kernel.variant,
     extras |-> Range(kernel.extras), initrd |-> Range(kernel.initrd)]

C19_LegacyKernels ==
    kern.pc # "listed" /\ kern.schema = "Legacy"
    => /\ kern.pc = "returned"
       /\ {AsExpected(kern.out[i]) : i \in 1..Len(kern.out)}
            = {ExpectedKernel(kern.paths, p) : p \in {q \in Range(kern.paths) : WellFormed(q)}}
       /\ Len(kern.out) = Cardinality({q \in Range(kern.paths) : WellFormed(q)})

(***************************************************************************)
(* Boot Loader Interface (bootloader/systemd_boot/interface.rs)            *)
(***************************************************************************)
MaxBytes == 8

\* the variable files: none, or up to MaxBytes bytes out of NUL, 'A' and the
\* high byte of a surrogate
VarFiles ==
    {[present |-> FALSE, bytes |-> <<>>]}
    \cup {[present |-> TRUE, bytes |-> b] :
            b \in UNION {[1..n -> {0, 65, 216}] : n \in 0..MaxBytes}}

\* u16::from_le_bytes
from_le_bytes(lo, hi) == (lo + 256 * hi) % 65536

HighSurrogate(u) == u >= 55296 /\ u <= 56319
LowSurrogate(u) == u >= 56320 /\ u <= 57343

\* String::from_utf16, from unit i on: the code points, or an error on a
\* surrogate without its pair
RECURSIVE from_utf16(_, _)
from_utf16(units, i) ==
    IF i > Len(units) THEN [ok |-> TRUE, chars |-> <<>>]
    ELSE IF HighSurrogate(units[i]) /\ i < Len(units) /\ LowSurrogate(units[i + 1])
    THEN LET rest == from_utf16(units, i + 2)
         IN  [ok |-> rest.ok,
              chars |-> IF rest.ok
                        THEN <<65536 + (units[i] - 55296) * 1024 + (units[i + 1] - 56320)>>
                             \o rest.chars
                        ELSE <<>>]
    ELSE IF HighSurrogate(units[i]) \/ LowSurrogate(units[i])
    THEN [ok |-> FALSE, chars |-> <<>>]
    ELSE LET rest == from_utf16(units, i + 1)
         IN  [ok |-> rest.ok, chars |-> IF rest.ok THEN <<units[i]>> \o rest.chars ELSE <<>>]

\* BootLoaderInterface::get_ucs2_string (lines 111-120)
get_ucs2_string(file) ==
    IF ~file.present THEN [res |-> "IO", string |-> <<>>]
    ELSE LET n == Len(file.bytes)
             chunks == (n + 1) \div 2
         IN  IF chunks > 2 /\ n % 2 = 1 THEN [res |-> "panic", string |-> <<>>]
             ELSE LET raw == [k \in 1..(IF chunks > 2 THEN chunks - 2 ELSE 0) |->
                                 from_le_bytes(file.bytes[2 * k + 3], file.bytes[2 * k + 4])]
                      popped == IF Len(raw) = 0 THEN raw ELSE SubSeq(raw, 1, Len(raw) - 1)
                      decoded == from_utf16(popped, 1)
                  IN  IF decoded.ok THEN [res |-> "Ok", string |-> decoded.chars]
                      ELSE [res |-> "UTF16Decoding", string |-> <<>>]

\* BootLoaderInterface::get_device_part_uuid (lines 97-101), with
\* str::to_lowercase on the code points of the variable files
get_device_part_uuid(file) ==
    LET read == get_ucs2_string(file)
        char_to_lowercase(c) ==
            IF c >= 65 /\ c <= 90 THEN c + 32
            ELSE IF c >= 192 /\ c <= 222 /\ c # 215 THEN c + 32
            ELSE c
    IN  [read EXCEPT !.string = [i \in 1..Len(read.string) |-> char_to_lowercase(read.string[i])]]

\* the by-partuuid directory: absent, empty, or with the link of the ESP
PartUUID == <<97>>

\* BootLoaderInterface::get_device_path (lines 104-108): the path that
\* canonicalize makes of disk_dir joined with the PartUUID
get_device_path(file, disk_dir) ==
    LET uuid == get_device_part_uuid(file)
    IN  IF uuid.res # "Ok" THEN [res |-> uuid.res, path |-> "none"]
        ELSE IF disk_dir = "absent" THEN [res |-> "IO", path |-> "none"]
        ELSE IF uuid.string = <<>> THEN [res |-> "Ok", path |-> "/dev/disk/by-partuuid"]
        ELSE IF uuid.string = PartUUID /\ disk_dir = "linked"
        THEN [res |-> "Ok", path |-> "/dev/nvme0n1p1"]
        ELSE [res |-> "IO", path |-> "none"]

InitEfi ==
    /\ FileIdle
    /\ BootIdle
    /\ topo = TopoIdle
    /\ kern = [pc |-> "idle"]
    /\ \E file \in VarFiles, disk_dir \in {"absent", "empty", "linked"} :
         efi = [pc |-> "booted", file |-> file, disk_dir |-> disk_dir,
                res |-> "none", string |-> <<>>, path |-> "none"]

\* determine_esp_by_bls reads LoaderInfo (bootenv.rs line 128)
efi_get_ucs2_string ==
    /\ efi.pc = "booted"
    /\ LET read == get_ucs2_string(efi.file)
       IN  efi' = [efi EXCEPT !.pc = "read", !.res = read.res, !.string = read.string]
    /\ UNCHANGED <<fileVars, topo, kern, bootVars>>

\* determine_esp_by_bls asks for the device (bootenv.rs line 130)
efi_get_device_path ==
    /\ efi.pc = "booted"
    /\ LET uuid == get_device_part_uuid(efi.file)
           found == get_device_path(efi.file, efi.disk_dir)
       IN  efi' = [efi EXCEPT !.pc = "resolved", !.res = found.res,
                              !.string = uuid.string, !.path = found.path]
    /\ UNCHANGED <<fileVars, topo, kern, bootVars>>

NextEfi == efi_get_ucs2_string \/ efi_get_device_path

SpecEfi == InitEfi /\ [][NextEfi]_vars

\* C20: a variable file of 4 attribute bytes, a UCS-2 little-endian string and
\* a NUL terminator reads as exactly that string; a file that is missing,
\* shorter than the 4 bytes, of an odd number of bytes, or with a surrogate
\* that has no pair, gives an error: the read does not panic and no device
\* path comes out of it.
UnitsOf(bytes) ==
    [k \in 1..((Len(bytes) - 4) \div 2) |-> from_le_bytes(bytes[2 * k + 3], bytes[2 * k + 4])]

Undecodable(units) == \E i \in 1..Len(units) : HighSurrogate(units[i]) \/ LowSurrogate(units[i])

Terminated(bytes) ==
    /\ Len(bytes) >= 6 /\ Len(bytes) % 2 = 0
    /\ bytes[Len(bytes) - 1] = 0 /\ bytes[Len(bytes)] = 0

TextOf(bytes) == SubSeq(UnitsOf(bytes), 1, Len(UnitsOf(bytes)) - 1)

C20_DecodedOrError ==
    /\ efi.pc = "read" /\ Terminated(efi.file.bytes) /\ ~Undecodable(TextOf(efi.file.bytes))
       => efi.res = "Ok" /\ efi.string = TextOf(efi.file.bytes)
    /\ /\ efi.pc \in {"read", "resolved"}
       /\ \/ ~efi.file.present
          \/ Len(efi.file.bytes) < 4
          \/ Len(efi.file.bytes) % 2 = 1
          \/ Terminated(efi.file.bytes) /\ Undecodable(TextOf(efi.file.bytes))
       => efi.res \in {"IO", "UTF16Decoding"} /\ efi.path = "none"

(***************************************************************************)
(* Claims about what a sync leaves on the boot volume                      *)
(***************************************************************************)
\* the files a stanza names in its linux and initrd lines, relative to the
\* boot volume
ReferencedBy(text) ==
    {Tail(l) : l \in {m \in Range(SplitLines(text)) :
                        Len(m) > 0 /\ m[1] \in {W("linux /"), W("initrd /")}}}

\* C21: after sync_entries has succeeded, the linux image and the initrds
\* named by every schema-prefixed loader conf left in loader/entries exist on
\* the boot volume.
C21_SurvivorsBootable ==
    sy.pc = "done" =>
        \A w \in vol.stanzas :
            w.conf \in SchemaPrefixed => ReferencedBy(w.text) \subseteq vol.assets

(***************************************************************************)
(* fs::write of the stanza in Loader::install, call by call                *)
(***************************************************************************)
\* the stanza of an entry before the write (none, or that of an earlier sync
\* with another command line) and the one Loader::install is about to write
InitWrite ==
    /\ FileIdle
    /\ topo = TopoIdle /\ ProbeIdle
    /\ mgr = [pc |-> "idle"]
    /\ \E schema \in Schemas, pretty \in BOOLEAN, n \in 0..MaxInitrds, earlier \in BOOLEAN :
         LET entry == with_initrds(Entry_new(1, <<>>, <<>>), n)
         IN  /\ env = [pc |-> "idle", schema |-> schema, pretty_name |-> pretty]
             /\ entries = <<entry>>
             /\ vol = [FreshVolume EXCEPT
                         !.entries_dir = TRUE,
                         !.confs = IF earlier THEN {conf_name(entry, schema)} ELSE {},
                         !.stanzas = IF earlier THEN {EarlierStanza(schema, 1)} ELSE {}]
             /\ sy = [pc |-> "fs_write", conf |-> conf_name(entry, schema), off |-> 0,
                      old |-> IF earlier THEN <<EarlierStanza(schema, 1).text>> ELSE <<>>,
                      loader_config |->
                          generate_entry(display(kernel_dir(schema)), <<W("rw")>>, entry,
                                         schema, OsRelease(pretty))]

\* fs::write (line 251), File::create: the file is created or truncated
fs_write_create ==
    /\ sy.pc = "fs_write"
    /\ vol' = [vol EXCEPT !.confs = @ \cup {sy.conf}, !.stanzas = write(@, sy.conf, <<>>)]
    /\ sy' = [sy EXCEPT !.pc = "write_all"]
    /\ UNCHANGED <<fileVars, topoVars, env, mgr, entries>>

\* fs::write (line 251), write_all: the next piece of the text reaches the
\* file; after the last piece the call returns
fs_write_all ==
    /\ sy.pc = "write_all"
    /\ IF sy.off < Len(sy.loader_config)
       THEN /\ vol' = [vol EXCEPT !.stanzas =
                         write(@, sy.conf, SubSeq(sy.loader_config, 1, sy.off + 1))]
            /\ sy' = [sy EXCEPT !.off = @ + 1]
       ELSE /\ sy' = [sy EXCEPT !.pc = "returned"]
            /\ UNCHANGED vol
    /\ UNCHANGED <<fileVars, topoVars, env, mgr, entries>>

\* the process is interrupted between two calls of the write
fs_write_kill ==
    /\ sy.pc \in {"fs_write", "write_all"}
    /\ sy' = [sy EXCEPT !.pc = "killed"]
    /\ UNCHANGED <<fileVars, topoVars, env, mgr, entries, vol>>

NextWrite == fs_write_create \/ fs_write_all \/ fs_write_kill

SpecWrite == InitWrite /\ [][NextWrite]_vars

\* C22: whenever the write of a stanza is looked at, interrupted or not, the
\* file loader/entries/<id>.conf is absent, or holds the whole stanza it held
\* before, or holds the whole new stanza.
C22_StanzaAtomic ==
    \A w \in vol.stanzas :
        w.conf = sy.conf => w.text = sy.loader_config \/ <<w.text>> = sy.old

(***************************************************************************)
(* A run after an interrupted copy: changed_files, then copy_atomic_vfat   *)
(***************************************************************************)
\* Loader::install of the next run (lines 218-224) on the pair the interrupted
\* copy was about: changed_files on what is on disk now, possibly with a read
\* error, then copy_atomic_vfat for the pair if it was returned
later_run ==
    /\ cp.status = "killed"
    /\ cf.pc = "idle"
    /\ LET FileOf(content) == IF content = NoFile THEN Missing ELSE Reg(content)
           pairs == <<[source |-> FileOf(cp.source), dest |-> FileOf(files[cp.dest])]>>
       IN  \E fault \in Faults(pairs) :
             LET needs_writing == changed_files(pairs, fault)
             IN  /\ cf' = [pairs |-> pairs, faults |-> fault, out |-> needs_writing,
                           pc |-> "returned", staged |-> files[dest_temp(cp.dest)]]
                 /\ cp' = IF needs_writing = <<>>
                          THEN [cp EXCEPT !.status = "skipped"]
                          ELSE [cp EXCEPT !.pc = "start", !.status = "running",
                                          !.old = files[cp.dest], !.off = 0,
                                          !.dest_temp = <<>>, !.dest_exists = FALSE]
    /\ trace' = <<>>
    /\ UNCHANGED <<files, topoVars, bootVars>>

NextRerun == copy_atomic_vfat \/ later_run

SpecRerun == InitCopy /\ [][NextRerun]_vars

\* C23: the run that follows an interrupted copy_atomic_vfat(src, dst) gets
\* the pair back from changed_files whenever dst is missing or differs from
\* src, whatever the interruption left behind, and when the copy of the
\* returned pair succeeds dst holds the bytes of src and no staging file is
\* left.
C23_RecopiedAfterKill ==
    cf.pc = "returned" =>
        /\ cf.pairs[1].dest # cf.pairs[1].source => cf.out = <<1>>
        /\ cp.status = "skipped" => files[cp.dest] = cp.source
        /\ cp.status = "ok" => files[cp.dest] = cp.source /\ files[cp.dest_temp] = NoFile

\* C23 witness: the interrupted copy left no dst and a staging file with the
\* bytes of src; the next run got the pair back and its copy has succeeded.
C23_Witness ==
    /\ cf.pc = "returned" /\ cf.out = <<1>>
    /\ cf.pairs[1].dest = Missing
    /\ cf.staged = cp.source
    /\ cp.status = "ok"
    /\ cp.source # NoFile /\ Len(cp.source) > 0
    /\ files[cp.dest] = cp.source

(***************************************************************************)
(* Claims about the mounts of mount_partitions                             *)
(***************************************************************************)
\* the directories mounted so far, in the order of the mount calls
Mounted == LET m == SelectSeq(sy.log, LAMBDA e : e.op = "mount")
           IN  [i \in 1..Len(m) |-> m[i].path]

\* the umount calls made so far, in order
Umounts == SelectSeq(sy.log, LAMBDA e : e.op \in {"umount", "umount_failed"})

Backwards(seq) == [i \in 1..Len(seq) |-> seq[Len(seq) + 1 - i]]

\* C24: the guards mount_partitions returns are in the reverse of the order of
\* the mounts, the ESP when it was mounted being the last guard; when the
\* vector is dropped every guard makes one umount call for its directory, in
\* the order of the vector, whether or not an earlier umount failed.
C24_UnmountedInReverse ==
    /\ sy.guards # <<>> =>
          /\ sy.guards = Backwards(Mounted) /\ Umounts = <<>>
          /\ mgr.boot_env.esp /\ ~mgr.boot_env.esp_mountpoint.some
                => sy.guards[Len(sy.guards)] = mgr.mounts.esp.v
    /\ sy.guards = <<>> =>
          [i \in 1..Len(Umounts) |-> Umounts[i].path] = Backwards(Mounted)

\* C24 witness: the ESP and the XBOOTLDR partition were mounted, sync_entries
\* has succeeded, the vector was dropped, the first umount failed and the
\* second one was made all the same.
C24_Witness ==
    /\ sy.pc = "done" /\ sy.guards = <<>>
    /\ Len(Mounted) = 2 /\ Mounted[1] = mgr.mounts.esp.v
    /\ Len(Umounts) = 2
    /\ Umounts[1].op = "umount_failed" /\ Umounts[2].op = "umount"
    /\ Umounts[2].path = mgr.mounts.esp.v

FailedMount == sy.pc = "failed" /\ sy.err = "mount"

\* the mounts of the call that no umount call has undone: the i-th umount is
\* that of the i-th guard, the guard of the mount made i-th from the end
LeftMounted == {i \in 1..Len(Mounted) : Umounts[Len(Mounted) + 1 - i].op # "umount"}

\* C25, as stated: when a mount of mount_partitions fails, no partition the
\* call has mounted before is left mounted.
C25_NothingLeftMounted ==
    FailedMount => /\ Len(Umounts) = Len(Mounted)
                   /\ LeftMounted = {}

\* C25, amended: when a mount of mount_partitions fails the error is returned
\* with no guard, and every partition the call has mounted before got one
\* umount call from the drop of its guard, the latest mount first; a partition
\* is left mounted only if that umount failed.
C25_EveryMountDropped ==
    FailedMount =>
        /\ sy.guards = <<>>
        /\ [i \in 1..Len(Umounts) |-> Umounts[i].path] = Backwards(Mounted)

\* C25 witness: the ESP was mounted, the mount of the XBOOTLDR partition
\* failed, and the ESP was unmounted again.
C25_Witness ==
    /\ FailedMount
    /\ Mounted = <<mgr.mounts.esp.v>>
    /\ mgr.boot_env.xbootldr /\ ~mgr.boot_env.xboot_mountpoint.some
    /\ Len(Umounts) = 1 /\ Umounts[1].op = "umount"
MaxRuns == 2

\* the contents of the files of a kernel
Payloads == {<<0>>, <<1>>, <<0, 1>>}

\* the initrds a kernel directory of the root can hold, in the order of
\* kernel.initrd
InitrdNames == <<<<W("B"), W(".initrd")>>, <<W("b"), W(".initrd")>>, <<W("x"), W(".initrd")>>>>

\* join_insensitive (file_utils.rs 23-37): the name of the entry of the
\* directory that equals path in lower case, else path itself
join_insensitive(dir, path) ==
    IF \E e \in dir : to_lowercase(e.name) = to_lowercase(path)
    THEN (CHOOSE e \in dir : to_lowercase(e.name) = to_lowercase(path)).name
    ELSE path

\* the copies of `for (source, dest) in needs_writing` (mod.rs 218-220), from
\* the k-th on; a copy_atomic_vfat that succeeds unlinks what VFAT finds
\* under dest and renames the staged bytes of source to dest
RECURSIVE copy_needs_writing(_, _, _, _)
copy_needs_writing(dir, changes, needs_writing, k) ==
    IF k > Len(needs_writing) THEN dir
    ELSE LET pair == changes[needs_writing[k]]
             kept == {e \in dir : to_lowercase(e.name) # to_lowercase(pair.dest)}
         IN  copy_needs_writing(kept \cup {[name |-> pair.dest, data |-> pair.source.data]},
                                changes, needs_writing, k + 1)

InitInstall ==
    /\ cp = [pc |-> "idle", status |-> "idle"]
    /\ trace = <<>>
    /\ topo = TopoIdle /\ ProbeIdle
    /\ env = [pc |-> "idle"] /\ mgr = [pc |-> "idle"] /\ vol = <<>> /\ sy = [pc |-> "idle"]
    /\ cf = [pc |-> "install", run |-> 0, out |-> <<>>, first |-> {}, copies |-> 0]
    /\ \E image \in Payloads : \E chosen \in SUBSET (1..Len(InitrdNames)) :
         /\ Cardinality(chosen) <= MaxInitrds
         /\ \E data \in [chosen -> Payloads] :
              LET picked == SelectSeq([i \in 1..Len(InitrdNames) |-> i], LAMBDA i : i \in chosen)
              IN  entries = <<[name |-> <<W("vmlinuz")>>, data |-> image]>>
                            \o [k \in 1..Len(picked) |->
                                  [name |-> InitrdNames[picked[k]], data |-> data[picked[k]]]]
    /\ \E earlier \in {{}} \cup {{[name |-> n, data |-> d]} :
                                   n \in {<<W("vmlinuz")>>} \cup Range(InitrdNames),
                                   d \in Payloads} :
         files = earlier

\* Loader::install up to the copies (mod.rs 191-220): the pairs with their
\* destinations joined to the kernel directory, changed_files over it, and one
\* copy_atomic_vfat for every pair returned
loader_install ==
    /\ cf.pc = "install"
    /\ cf.run < MaxRuns
    /\ LET changes == [i \in 1..Len(entries) |->
                            [source |-> entries[i],
                             dest |-> join_insensitive(files, entries[i].name)]]
           open(path) == IF \E e \in files : to_lowercase(e.name) = to_lowercase(path)
                         THEN Reg((CHOOSE e \in files :
                                      to_lowercase(e.name) = to_lowercase(path)).data)
                         ELSE Missing
           needs_writing == changed_files([i \in 1..Len(changes) |->
                                              [source |-> Reg(changes[i].source.data),
                                               dest |-> open(changes[i].dest)]], NoFault)
           written == copy_needs_writing(files, changes, needs_writing, 1)
       IN  /\ files' = written
           /\ cf' = [cf EXCEPT !.run = @ + 1, !.out = needs_writing,
                               !.copies = Len(needs_writing),
                               !.first = IF cf.run = 0 THEN written ELSE @]
    /\ UNCHANGED <<cp, trace, topoVars, env, mgr, entries, vol, sy>>

SpecInstall == InitInstall /\ [][loader_install]_vars

\* C27: when the install has run a second time over the same kernel, the same
\* initrds and unchanged sources, changed_files reported no pair, no
\* copy_atomic_vfat took place, and the kernel directory of the boot volume
\* holds what it held after the first run.
C27_SecondRunSkips ==
    cf.run >= 2 => cf.out = <<>> /\ cf.copies = 0 /\ files = cf.first

(***************************************************************************)
(* The shape of the tree of get_rootfs_device                              *)
(***************************************************************************)
\* the nodes of a tree of depth one
Nodes(root) == {root} \cup Range(root.children)

\* C28: for every backing chain, the empty one included, the tree has the
\* deepest backing device as its top node with aux = true, the other devices as
\* its children, and holds the device mounted at P as a node with aux = false
\* and mountpoint P.
C28_TreeShape ==
    topo.pc \in {"built", "done"} =>
        LET last == Len(topo.kinds)
        IN  /\ topo.root.path = Atom("/dev/", last)
            /\ topo.root.aux
            /\ {c.path : c \in Range(topo.root.children)}
                 = {Atom("/dev/", d) : d \in 1..(last - 1)}
            /\ \E n \in Nodes(topo.root) :
                 /\ n.path = Atom("/dev/", 1)
                 /\ ~n.aux
                 /\ n.mountpoint = Some(RootPath)

(***************************************************************************)
(* White space in the string of cmd_line                                   *)
(***************************************************************************)
\* C29: the string returned by cmd_line has no leading or trailing white space
\* and no two consecutive white space characters, for every device tree, also
\* when a first, middle or last child yields an empty fragment.
C29_WhitespaceNormalised ==
    topo.pc = "done" /\ topo.out # <<>> =>
        /\ topo.out[1] # Blank
        /\ topo.out[Len(topo.out)] # Blank
        /\ \A i \in 1..(Len(topo.out) - 1) : ~(topo.out[i] = Blank /\ topo.out[i + 1] = Blank)

(***************************************************************************)
(* superblock::for_reader.  The stream is counted in blocks of 1 KiB; an   *)
(* image is its length and the kinds whose magic stands at the offset the   *)
(* kind's reader looks at.  The readers of Ext4 and XFS follow the offsets  *)
(* the specification gives (1024 and 0).                                    *)
(***************************************************************************)
\* most blocks of an image: one more than the Btrfs reader needs
MaxBlocks == 66

\* the order of the attempts of for_reader (lib.rs 76-103)
ReaderOrder == <<"Ext4", "Btrfs", "F2FS", "XFS", "LUKS2">>

\* reader.rewind(), mutated: the reader stays where the last attempt left it
rewind_keep(pos) == pos

\* reader.rewind()
rewind(pos) == 0

\* <kind>::from_reader(reader) with the reader at pos: START_POSITION blocks are
\* dropped, SIZE blocks are read with read_exact, and the magic is compared;
\* a Cursor that cannot fill the buffer is left at its end
from_reader(image, pos, kind) ==
    LET START_POSITION == CASE kind \in {"Ext4", "F2FS"} -> 1
                            [] kind = "Btrfs" -> 64
                            [] OTHER -> 0
        SIZE == CASE kind = "F2FS" -> 3
                  [] kind = "LUKS2" -> 4
                  [] OTHER -> 1
        from == IF pos + START_POSITION < image.size THEN pos + START_POSITION ELSE image.size
    IN  IF from + SIZE > image.size
        THEN [ok |-> FALSE, err |-> "IO", pos |-> image.size]
        ELSE IF pos = 0 /\ kind \in image.magic
        THEN [ok |-> TRUE, err |-> "", pos |-> from + SIZE]
        ELSE [ok |-> FALSE, err |-> "InvalidMagic", pos |-> from + SIZE]

\* for_reader from the i-th attempt on (lib.rs 73-106): what it returns, and
\* for every attempt made the kind, where the reader stood and the failure
RECURSIVE for_reader(_, _, _, _)
for_reader(image, pos, i, tried) ==
    IF i > Len(ReaderOrder)
    THEN [ok |-> FALSE, kind |-> "UnknownSuperblock", tried |-> tried]
    ELSE LET at == rewind(pos)
             block == from_reader(image, at, ReaderOrder[i])
             attempts == Append(tried, [kind |-> ReaderOrder[i], at |-> at, err |-> block.err])
         IN  IF block.ok
             THEN [ok |-> TRUE, kind |-> ReaderOrder[i], tried |-> attempts]
             ELSE for_reader(image, block.pos, i + 1, attempts)

\* the images handed to for_reader by get_device_superblock, behind a fresh
\* Cursor; XFS and LUKS2 keep their magic at the same offset
InitReader ==
    /\ FileIdle
    /\ BootIdle
    /\ ProbeIdle
    /\ \E size \in 0..MaxBlocks, magic \in SUBSET Range(ReaderOrder) :
         /\ ~({"XFS", "LUKS2"} \subseteq magic)
         /\ topo = [pc |-> "cursor", image |-> [size |-> size, magic |-> magic],
                    out |-> [ok |-> FALSE, kind |-> "", tried |-> <<>>]]

\* let sb = superblock::for_reader(&mut cursor) (probe.rs 123-124)
get_device_superblock ==
    /\ topo.pc = "cursor"
    /\ topo' = [topo EXCEPT !.pc = "returned", !.out = for_reader(topo.image, 0, 1, <<>>)]
    /\ UNCHANGED <<fileVars, bootVars, kern, efi>>

SpecReader == InitReader /\ [][get_device_superblock]_vars

\* the kinds whose reader succeeds on the rewound image
Readable == {k \in Range(ReaderOrder) : from_reader(topo.image, 0, k).ok}

====
